---- MODULE Spec2Model ----
(***************************************************************************)
(* Model of the Tina subprocess IPC bridge and event pipeline:             *)
(*   tina-ipc   ProcessHandle (process.rs), NanachiManager (nanachi.rs)    *)
(*   tina-worker TinaWorker and handle_ipc_event (worker.rs)               *)
(* Callers reach the bridge through TinaWorker's RwLock; the writer,       *)
(* reader and pipeline tasks and the engine process run concurrently.      *)
(***************************************************************************)
EXTENDS Integers, Sequences, FiniteSets, TLC

(* ------------------------------ bounds -------------------------------- *)
MaxSpawns == 2      \* engine processes spawned in one run
MaxCtlOps == 3      \* start/stop/is_running calls of the control caller
MaxSendOps == 1     \* send_message/stop_account/start_account calls per sender
MaxLines == 2       \* stdout lines the engines emit in one run
StdinCap == 2       \* mpsc::channel::<String>(100) in process.rs:35, scaled
InboundCap == 1     \* mpsc::channel(1000) in nanachi.rs:21, scaled
EventCap == 1       \* mpsc::channel(1000) in worker.rs:29, scaled
PipeCap == 1        \* chunks the OS stdin pipe buffers before write blocks
BatchLen == 1       \* items of a bulk engine event
MaxStoreOps == 2    \* repository calls the front end makes in one run
MaxChatOps == 5     \* repository calls in a run that lists chats
SmallBatch == 2     \* items of a bulk event below every progress threshold
MidBatch == 11      \* items of a bulk event just above the contacts threshold
LargeBatch == 120   \* items of a bulk event spanning several progress periods

(* --------------------------- program constants ------------------------ *)
ChunksPerLine == 2          \* write_all may complete a line in several writes
KillOnDropOff == FALSE
KillOnDrop == TRUE          \* Command::kill_on_drop(true)
ContactsProgressMin == 10   \* count > 10
ContactsProgressEvery == 50 \* i % 50 == 0
MessagesProgressMin == 50   \* count > 50
MessagesProgressEvery == 100 \* i % 100 == 0

CtlCallers == {"ctl"}
SendCallers == {"s1", "s2"}
Callers == CtlCallers \cup SendCallers
PIDs == 1..MaxSpawns
AccountIds == {"acme", "ghost"}
Null == "null"

WriteOps == {"start", "stop", "is_running"}
ReadOps == {"send_message", "stop_account", "start_account"}

VARIABLES
  callers,      \* per caller: pc, op, ops done, lines built, result, account, auth snapshot
  waitq,        \* FIFO wait queue of the RwLock around the NanachiManager
  writer,       \* caller holding the write lock, or Null
  readers,      \* callers holding a read lock
  workerAlive,  \* the TinaWorker (and its NanachiManager) has not been dropped
  process,      \* NanachiManager.process: 0 is None, else the pid of the handle
  local,        \* the handle stop() took out of the slot, 0 if none
  nspawned,     \* engine processes spawned so far
  manifest,     \* package.json exists
  nodeModules,  \* node_modules exists
  pstate,       \* per pid: "unborn", "running", "dead"
  forcedBy,     \* per pid: who issued the forced termination, "none" if nobody
  stdinQ,       \* per pid: the bounded stdin line queue (stdin_tx / stdin_rx)
  enq,          \* per pid: history of the lines accepted by the stdin queue
  wpc,          \* per pid: writer task position "recv", "write", "done"
  wline,        \* per pid: the line the writer task is writing and chunks done
  written,      \* per pid: history of the chunks written to the engine's stdin
  nread,        \* per pid: chunks the engine has read from its stdin
  outPipe,      \* per pid: stdout lines written by the engine, not yet read
  emitted,      \* per pid: number of stdout lines the engine has written
  rpc,          \* per pid: reader task position "read", "send", "done"
  rline,        \* per pid: the line the reader task holds
  inbound,      \* the bridge's inbound raw-line channel
  inboundRx,    \* owner of its receiver: "manager", "pipeline", "dropped"
  plpc,         \* pipeline task position "none", "recv", "handle", "done"
  plcur,        \* the line the pipeline task is handling
  todo,         \* the effects of that line still to perform
  trace,        \* history of the pipeline: begin/effect/end entries per line
  events,       \* the domain-event channel
  eventRx,      \* owner of its receiver: "worker", "consumer", "dropped"
  produced,     \* history of the events handle_ipc_event sent while a receiver existed
  delivered,    \* history of the events the consumer received
  accounts,     \* store: ids of the Account rows
  authState,    \* store: auth_state column per account id
  acctCols,     \* store: name, created_at, updated_at per account id
  rows,         \* store: contact/group/message rows [table, acct, key, cols]
  lastCall,     \* store: the last repository call, its arguments and its result
  storeOps,     \* repository calls made by the front end so far
  codec,        \* an envelope on its way through to_line and from_line
  display       \* a JID on its way through format_jid_for_display

procVars == <<pstate, forcedBy, stdinQ, enq, wpc, wline, written, nread,
              outPipe, emitted, rpc, rline>>
lockVars == <<waitq, writer, readers>>
bridgeVars == <<process, local, nspawned, manifest, nodeModules>>
pipeVars == <<inbound, inboundRx, plpc, plcur, todo, trace>>
eventVars == <<events, eventRx, produced, delivered>>
storeVars == <<accounts, authState, acctCols, rows, lastCall, storeOps>>
vars == <<callers, workerAlive, lockVars, bridgeVars, procVars, pipeVars,
          eventVars, storeVars, codec, display>>

NoLine == [c |-> "none", n |-> 0, cmd |-> "none", arg |-> ""]
NoOut == [p |-> 0, k |-> 0, kind |-> "none", acct |-> "", n |-> 0, items |-> <<>>]

(* ------------------------- tokio::sync::mpsc -------------------------- *)
\* Sender::send(x).await on a bounded channel: the set of queues the send
\* can leave behind. On a full channel there is none: the sender stays
\* suspended until a slot is free.
ChanTrySend(q, cap, x) == IF Len(q) < cap THEN {Append(q, x)} ELSE {q}
ChanSend(q, cap, x) == IF Len(q) < cap THEN {Append(q, x)} ELSE {}

(* ------------------- wire protocol (tina-core) ------------------------ *)
\* The variants of IpcCommand and IpcEvent and the types of their fields.
CommandTags == {"StartAccount", "StopAccount", "GetQrCode", "SendMessage",
                "GetContacts", "GetGroups", "GetMessages", "SetAuthState",
                "Shutdown"}
EventTags == {"Ready", "QrCode", "Connected", "Disconnected", "LoggedOut",
              "AuthStateUpdated", "ContactsUpsert", "ContactsUpdate",
              "GroupsUpsert", "GroupsUpdate", "MessagesUpsert",
              "HistorySyncComplete", "Error", "CommandResult"}

\* Field name -> type, for a variant tag or for one of the item structs.
Fields(t) ==
  CASE t \in {"StartAccount", "StopAccount", "GetQrCode", "GetContacts",
              "GetGroups", "Ready", "LoggedOut"} ->
         [account_id |-> "String"]
    [] t = "SendMessage" ->
         [account_id |-> "String", to |-> "String", content |-> "String"]
    [] t = "GetMessages" ->
         [account_id |-> "String", chat_jid |-> "Option<String>", limit |-> "i64"]
    [] t = "SetAuthState" -> [account_id |-> "String", auth_state |-> "String"]
    [] t = "AuthStateUpdated" -> [account_id |-> "String", auth_state |-> "String"]
    [] t = "QrCode" -> [account_id |-> "String", qr |-> "String"]
    [] t = "Connected" ->
         [account_id |-> "String", phone_number |-> "Option<String>"]
    [] t = "Disconnected" -> [account_id |-> "String", reason |-> "String"]
    [] t \in {"ContactsUpsert", "ContactsUpdate"} ->
         [account_id |-> "String", contacts |-> "Vec<ContactData>"]
    [] t \in {"GroupsUpsert", "GroupsUpdate"} ->
         [account_id |-> "String", groups |-> "Vec<GroupData>"]
    [] t = "MessagesUpsert" ->
         [account_id |-> "String", messages |-> "Vec<MessageData>"]
    [] t = "HistorySyncComplete" ->
         [account_id |-> "String", messages_count |-> "usize"]
    [] t = "Error" -> [account_id |-> "Option<String>", error |-> "String"]
    [] t = "CommandResult" ->
         [command_id |-> "String", success |-> "bool",
          data |-> "Option<Value>", error |-> "Option<String>"]
    [] t = "ContactData" ->
         [jid |-> "String", lid |-> "Option<String>",
          phone_number |-> "Option<String>", name |-> "Option<String>",
          notify |-> "Option<String>", verified_name |-> "Option<String>",
          img_url |-> "Option<String>", status |-> "Option<String>"]
    [] t = "GroupData" ->
         [jid |-> "String", subject |-> "Option<String>",
          owner |-> "Option<String>", description |-> "Option<String>",
          participants |-> "Vec<ParticipantData>"]
    [] t = "ParticipantData" ->
         [id |-> "String", admin |-> "Option<String>",
          phone_number |-> "Option<String>"]
    [] t = "MessageData" ->
         [message_id |-> "String", chat_jid |-> "String",
          sender_jid |-> "String", content |-> "Option<String>",
          message_type |-> "String", timestamp |-> "i64",
          is_from_me |-> "bool", raw_json |-> "Option<String>"]
    [] OTHER -> <<>>       \* Shutdown: a unit variant

ItemStruct(ty) ==
  CASE ty = "Vec<ContactData>" -> "ContactData"
    [] ty = "Vec<GroupData>" -> "GroupData"
    [] ty = "Vec<ParticipantData>" -> "ParticipantData"
    [] ty = "Vec<MessageData>" -> "MessageData"
    [] OTHER -> "none"

\* Rust values: an Option is <<>> (None) or <<v>> (Some(v)), a Vec is a
\* sequence, a struct is a record, a serde_json::Value is a JSON value.
\* JSON values: <<"null">>, <<"str", s>>, <<"num", n>>, <<"bool", b>>,
\* <<"arr", seq>>, <<"obj", fields>>.
JNull == <<"null">>
JKind(j) == j[1]

\* Serialize for a value of type ty.
RECURSIVE Ser(_, _)
Ser(ty, v) ==
  CASE ty = "String" -> <<"str", v>>
    [] ty \in {"i64", "usize"} -> <<"num", v>>
    [] ty = "bool" -> <<"bool", v>>
    [] ty = "Option<String>" -> IF v = <<>> THEN JNull ELSE <<"str", v[1]>>
    [] ty = "Option<Value>" -> IF v = <<>> THEN JNull ELSE v[1]
    [] OTHER ->
         <<"arr", [i \in 1..Len(v) |->
                     <<"obj", [f \in DOMAIN Fields(ItemStruct(ty)) |->
                                Ser(Fields(ItemStruct(ty))[f], v[i][f])]>>]>>

\* Deserialize for type ty: [ok |-> FALSE], or the value in v.
RECURSIVE De(_, _)
De(ty, j) ==
  CASE ty = "String" ->
         IF JKind(j) = "str" THEN [ok |-> TRUE, v |-> j[2]] ELSE [ok |-> FALSE]
    [] ty = "i64" ->
         IF JKind(j) = "num" THEN [ok |-> TRUE, v |-> j[2]] ELSE [ok |-> FALSE]
    [] ty = "usize" ->
         IF JKind(j) = "num" /\ j[2] >= 0
         THEN [ok |-> TRUE, v |-> j[2]] ELSE [ok |-> FALSE]
    [] ty = "bool" ->
         IF JKind(j) = "bool" THEN [ok |-> TRUE, v |-> j[2]] ELSE [ok |-> FALSE]
    [] ty = "Option<String>" ->
         IF JKind(j) = "null" THEN [ok |-> TRUE, v |-> <<>>]
         ELSE IF JKind(j) = "str" THEN [ok |-> TRUE, v |-> <<j[2]>>]
         ELSE [ok |-> FALSE]
    [] ty = "Option<Value>" ->
         \* Option's visitor takes a JSON null for None before Value sees it
         IF JKind(j) = "null" THEN [ok |-> TRUE, v |-> <<>>]
         ELSE [ok |-> TRUE, v |-> <<j>>]
    [] OTHER ->
         IF JKind(j) # "arr" THEN [ok |-> FALSE]
         ELSE LET fs == Fields(ItemStruct(ty))
                  good(x) == /\ JKind(x) = "obj"
                             /\ DOMAIN fs \subseteq DOMAIN x[2]
                             /\ \A f \in DOMAIN fs : De(fs[f], x[2][f]).ok
              IN IF \A i \in 1..Len(j[2]) : good(j[2][i])
                 THEN [ok |-> TRUE,
                       v |-> [i \in 1..Len(j[2]) |->
                                [f \in DOMAIN fs |-> De(fs[f], j[2][i][2][f]).v]]]
                 ELSE [ok |-> FALSE]

\* An envelope: IpcMessage { id, content: Command(..) | Event(..) }.
Envelope(id, kind, tag, payload) ==
  [id |-> id, kind |-> kind, tag |-> tag, payload |-> payload]

\* IpcMessage::to_line: the JSON object {"id", "type"[, "payload"]} of the
\* flattened, adjacently tagged content, followed by a newline.
ToLine(m) ==
  <<IF DOMAIN Fields(m.tag) = {}
    THEN [id |-> <<"str", m.id>>, type |-> <<"str", m.tag>>]
    ELSE [id |-> <<"str", m.id>>, type |-> <<"str", m.tag>>,
          payload |-> <<"obj", [f \in DOMAIN Fields(m.tag) |->
                                 Ser(Fields(m.tag)[f], m.payload[f])]>>],
    "\n">>

\* One arm of the untagged content: the adjacently tagged enum whose
\* variants are `tags`, read from the object o.
Variant(tags, o) ==
  IF ~("type" \in DOMAIN o) THEN [ok |-> FALSE]
  ELSE IF ~(JKind(o["type"]) = "str" /\ o["type"][2] \in tags) THEN [ok |-> FALSE]
  ELSE LET t == o["type"][2]
           fs == Fields(t)
       IN IF DOMAIN fs = {}
          THEN IF "payload" \in DOMAIN o /\ JKind(o["payload"]) # "null"
               THEN [ok |-> FALSE]
               ELSE [ok |-> TRUE, tag |-> t, payload |-> <<>>]
          ELSE IF ~("payload" \in DOMAIN o) THEN [ok |-> FALSE]
          ELSE IF JKind(o["payload"]) # "obj" THEN [ok |-> FALSE]
          ELSE IF ~(DOMAIN fs \subseteq DOMAIN o["payload"][2]) THEN [ok |-> FALSE]
          ELSE IF \A f \in DOMAIN fs : De(fs[f], o["payload"][2][f]).ok
               THEN [ok |-> TRUE, tag |-> t,
                     payload |-> [f \in DOMAIN fs |->
                                    De(fs[f], o["payload"][2][f]).v]]
               ELSE [ok |-> FALSE]

\* IpcMessage::from_line: trim, then the id and the content, Command tried
\* before Event; None for anything else.
NoEnvelope == Envelope("", "none", "none", <<>>)
FromLine(line) ==
  LET o == line[1] IN
    IF ~("id" \in DOMAIN o /\ JKind(o["id"]) = "str") THEN NoEnvelope
    ELSE IF Variant(CommandTags, o).ok
         THEN Envelope(o["id"][2], "Command", Variant(CommandTags, o).tag,
                       Variant(CommandTags, o).payload)
    ELSE IF Variant(EventTags, o).ok
         THEN Envelope(o["id"][2], "Event", Variant(EventTags, o).tag,
                       Variant(EventTags, o).payload)
    ELSE NoEnvelope

(* --------------------------- initial state ---------------------------- *)
NoCall == [n |-> 0, op |-> "none", acct |-> "", key |-> "", cols |-> <<>>,
           res |-> "none", had |-> 0, out |-> <<>>]
\* The columns of an account id that has no row, and of the account row the
\* program starts with.
NoAccount == [name |-> <<>>, created_at |-> 0, updated_at |-> 0]
FirstAccount == [name |-> <<"Ana">>, created_at |-> 0, updated_at |-> 0]
DisplayIdle == [pc |-> "idle", jid |-> <<>>, shown |-> <<>>]
CodecIdle == [pc |-> "idle", msg |-> NoEnvelope, line |-> <<>>, back |-> NoEnvelope]

\* Everything but the envelope in the codec.
InitSystem ==
  /\ callers = [c \in Callers |->
                  [pc |-> "idle", op |-> "none", ops |-> 0, lines |-> 0,
                   res |-> "none", acct |-> "", auth |-> Null, did |-> "none",
                   behind |-> FALSE]]
  /\ waitq = <<>> /\ writer = Null /\ readers = {}
  /\ workerAlive = TRUE
  /\ process = 0 /\ local = 0 /\ nspawned = 0
  /\ manifest \in BOOLEAN /\ nodeModules \in BOOLEAN
  /\ pstate = [p \in PIDs |-> "unborn"]
  /\ forcedBy = [p \in PIDs |-> "none"]
  /\ stdinQ = [p \in PIDs |-> <<>>]
  /\ enq = [p \in PIDs |-> <<>>]
  /\ wpc = [p \in PIDs |-> "recv"]
  /\ wline = [p \in PIDs |-> [line |-> NoLine, done |-> 0]]
  /\ written = [p \in PIDs |-> <<>>]
  /\ nread = [p \in PIDs |-> 0]
  /\ outPipe = [p \in PIDs |-> <<>>]
  /\ emitted = [p \in PIDs |-> 0]
  /\ rpc = [p \in PIDs |-> "read"]
  /\ rline = [p \in PIDs |-> NoOut]
  /\ inbound = <<>> /\ inboundRx = "manager"
  /\ plpc = "none" /\ plcur = NoOut /\ todo = <<>> /\ trace = <<>>
  /\ events = <<>> /\ eventRx = "worker" /\ produced = <<>> /\ delivered = <<>>
  /\ accounts = {"acme"}
  /\ authState \in [AccountIds -> {Null, "auth0"}]
  /\ \A a \in AccountIds \ accounts : authState[a] = Null
  /\ acctCols = [a \in AccountIds |-> IF a \in accounts THEN FirstAccount ELSE NoAccount]
  /\ rows = {} /\ lastCall = NoCall /\ storeOps = 0

Init == InitSystem /\ codec = CodecIdle /\ display = DisplayIdle

(* ------------------------- ProcessHandle ------------------------------ *)
Spawned(p) == p \in PIDs /\ p <= nspawned
\* the ProcessHandle of p (Child and stdin_tx) still exists
HandleLive(p) == process = p \/ local = p
\* the writer task has left its loop and dropped stdin_rx
StdinNeverClosed(p) == FALSE
StdinClosed(p) == wpc[p] = "done"

\* ProcessHandle::send: the line is queued on stdin_tx; ChannelClosed when
\* the writer task has gone; suspended ("Blocked") while the queue is full.
ProcessSend(p, line) ==
  IF StdinClosed(p) THEN [res |-> "ChannelClosed", q |-> stdinQ[p]]
  ELSE IF ChanSend(stdinQ[p], StdinCap, line) = {}
       THEN [res |-> "Blocked", q |-> stdinQ[p]]
       ELSE [res |-> "Ok", q |-> CHOOSE q \in ChanSend(stdinQ[p], StdinCap, line) : TRUE]

\* Child::kill / kill_on_drop: SIGKILL; the process is dead afterwards.
ForceKillNothing(ps, p) == ps
ForceKill(ps, p) == [ps EXCEPT ![p] = "dead"]
\* Dropping the ProcessHandle drops the Child: killed iff kill_on_drop.
DropHandle(ps, p) == IF KillOnDrop THEN ForceKill(ps, p) ELSE ps
MarkForced(fb, p, who) == IF fb[p] = "none" THEN [fb EXCEPT ![p] = who] ELSE fb

(* ------------------------- NanachiManager ----------------------------- *)
\* NanachiManager::send_command seen from a manager whose slot is `slot`.
SendCommandUnchecked(slot, line) ==
  IF slot = 0 THEN [res |-> "ChannelClosed", p |-> 0, q |-> <<>>]
  ELSE [res |-> ProcessSend(slot, line).res, p |-> slot, q |-> ProcessSend(slot, line).q]
SendCommand(slot, line) ==
  IF slot = 0 THEN [res |-> "ProcessNotRunning", p |-> 0, q |-> <<>>]
  ELSE [res |-> ProcessSend(slot, line).res, p |-> slot, q |-> ProcessSend(slot, line).q]

\* The stdin queues and their history after send_command returned r.
QueuesAfter(r) == IF r.res = "Ok" THEN [stdinQ EXCEPT ![r.p] = r.q] ELSE stdinQ
EnqAfter(r, line) == IF r.res = "Ok" THEN [enq EXCEPT ![r.p] = Append(@, line)] ELSE enq

(* --------------------------- RwLock, callers -------------------------- *)
OpLimit(c) == IF c \in CtlCallers THEN MaxCtlOps ELSE MaxSendOps
Line(c, cmd) ==
  [c |-> c, n |-> callers[c].lines + 1, cmd |-> cmd,
   arg |-> IF cmd = "SetAuthState" THEN callers[c].auth ELSE ""]

\* The caller's record when its call returns r having queued `sent` lines.
\* `did` names the branch the call took.
Returned(c, r, sent, did) ==
  [callers[c] EXCEPT !.pc = "idle", !.res = r, !.ops = @ + 1, !.lines = @ + sent,
                     !.did = did, !.behind = FALSE]

\* Dropping the lock guard at the end of a TinaWorker method.
Release(c) ==
  /\ writer' = IF writer = c THEN Null ELSE writer
  /\ readers' = readers \ {c}
  /\ UNCHANGED waitq

\* A stop() holds the write lock. `behind` of a caller's record is history:
\* the caller has waited for the lock while a stop() held it.
StopHolds == IF writer = Null THEN FALSE ELSE callers[writer].op = "stop"

\* A TinaWorker method is called: start, stop (write lock), send_message,
\* stop_account (read lock); is_running needs &mut NanachiManager, which is
\* exclusive access as well. The caller queues on the RwLock.
Call(c, op) ==
  /\ workerAlive /\ callers[c].pc = "idle" /\ callers[c].ops < OpLimit(c)
  /\ op \in (IF c \in CtlCallers THEN WriteOps ELSE {"send_message", "stop_account"})
  /\ callers' = [callers EXCEPT ![c] = [@ EXCEPT !.pc = "wait", !.op = op, !.res = "none",
                                                 !.behind = StopHolds]]
  /\ waitq' = Append(waitq, c)
  /\ UNCHANGED <<writer, readers, workerAlive, bridgeVars, procVars, pipeVars,
                 eventVars, storeVars, codec, display>>

\* TinaDb::get_account: fetch_one finds the account row, else AccountNotFound.
AccountAssumed(a) == TRUE
AccountFound(a) == a \in accounts

\* TinaWorker::start_account up to the lock: db.get_account fails for an
\* unknown id, else the account's auth_state is read before the lock is taken.
CallStartAccount(c, a) ==
  /\ workerAlive /\ c \in SendCallers
  /\ callers[c].pc = "idle" /\ callers[c].ops < OpLimit(c)
  /\ IF AccountFound(a)
     THEN /\ callers' = [callers EXCEPT ![c] = [@ EXCEPT !.pc = "wait",
                            !.op = "start_account", !.res = "none",
                            !.acct = a, !.auth = authState[a],
                            !.behind = StopHolds]]
          /\ waitq' = Append(waitq, c)
     ELSE /\ callers' = [callers EXCEPT ![c] = [@ EXCEPT !.op = "start_account",
                            !.acct = a, !.auth = Null,
                            !.res = "AccountNotFound", !.ops = @ + 1,
                            !.did = "no_account"]]
          /\ UNCHANGED waitq
  /\ UNCHANGED <<writer, readers, workerAlive, bridgeVars, procVars, pipeVars,
                 eventVars, storeVars, codec, display>>

\* tokio's RwLock is fair: waiters are served in FIFO order, a writer needs
\* the lock free, a reader needs it free of a writer.
ReadersPassWriter(op) == op \in WriteOps => (writer = Null /\ readers = {})
LockFree(op) == writer = Null /\ (op \in WriteOps => readers = {})
Grant(c) ==
  /\ waitq # <<>> /\ Head(waitq) = c
  /\ LockFree(callers[c].op)
  /\ waitq' = Tail(waitq)
  /\ IF callers[c].op \in WriteOps
     THEN writer' = c /\ UNCHANGED readers
     ELSE readers' = readers \cup {c} /\ UNCHANGED writer
  /\ callers' = [x \in Callers |->
                   IF x = c THEN [callers[c] EXCEPT !.pc = "held"]
                   ELSE IF callers[c].op = "stop"
                           /\ \E i \in DOMAIN waitq : waitq[i] = x
                        THEN [callers[x] EXCEPT !.behind = TRUE]
                        ELSE callers[x]]
  /\ UNCHANGED <<workerAlive, bridgeVars, procVars, pipeVars, eventVars, storeVars, codec, display>>

Holds(c, op) == callers[c].pc = "held" /\ callers[c].op = op

(* ------------------- NanachiManager::start, TinaWorker::start --------- *)
\* After nanachi.start() returned Ok: take_event_receiver, and the pipeline
\* task is spawned the one time the receiver is still there.
TakeInboundAgain == inboundRx' = "pipeline" /\ plpc' = "recv"
TakeInbound ==
  IF inboundRx = "manager"
  THEN inboundRx' = "pipeline" /\ plpc' = "recv"
  ELSE UNCHANGED <<inboundRx, plpc>>

\* ensure_dependencies: package_json.exists()
ManifestAssumed(m) == TRUE
ManifestFound(m) == m

\* if self.process.is_some() { return Ok(()) }
StartNeverReturnsEarly(slot) == FALSE
StartReturnsEarly(slot) == slot # 0

\* start() with a process in the slot: Ok at once.
StartNoop(c) ==
  /\ Holds(c, "start") /\ StartReturnsEarly(process)
  /\ callers' = [callers EXCEPT ![c] = Returned(c, "Ok", 0, "start_noop")]
  /\ Release(c) /\ TakeInbound
  /\ UNCHANGED <<workerAlive, bridgeVars, procVars, inbound, plcur, todo, trace,
                 eventVars, storeVars, codec, display>>

\* ensure_dependencies fails: no package.json, or bun install fails.
StartDepFail(c) ==
  /\ Holds(c, "start") /\ ~StartReturnsEarly(process)
  /\ ~ManifestFound(manifest) \/ ~nodeModules
  /\ callers' = [callers EXCEPT ![c] = Returned(c, "BunInstallFailed", 0, "dep_fail")]
  /\ Release(c)
  /\ UNCHANGED <<workerAlive, bridgeVars, procVars, pipeVars, eventVars, storeVars, codec, display>>

\* ProcessHandle::spawn fails (dependencies present or just installed).
StartSpawnFail(c) ==
  /\ Holds(c, "start") /\ ~StartReturnsEarly(process) /\ ManifestFound(manifest)
  /\ nodeModules' = TRUE
  /\ callers' = [callers EXCEPT ![c] = Returned(c, "SpawnFailed", 0, "spawn_fail")]
  /\ Release(c)
  /\ UNCHANGED <<workerAlive, process, local, nspawned, manifest, procVars,
                 pipeVars, eventVars, storeVars, codec, display>>

\* The engine is spawned with its writer, reader and diagnostics tasks and
\* its handle is stored in the slot.
StartSpawn(c) ==
  /\ Holds(c, "start") /\ ~StartReturnsEarly(process) /\ ManifestFound(manifest)
  /\ nspawned < MaxSpawns
  /\ nodeModules' = TRUE
  /\ nspawned' = nspawned + 1
  /\ process' = nspawned + 1
  /\ pstate' = [pstate EXCEPT ![nspawned + 1] = "running"]
  /\ callers' = [callers EXCEPT ![c] = Returned(c, "Ok", 0, "spawned")]
  /\ Release(c) /\ TakeInbound
  /\ UNCHANGED <<workerAlive, local, manifest, forcedBy, stdinQ, enq, wpc, wline,
                 written, nread, outPipe, emitted, rpc, rline, inbound, plcur,
                 todo, trace, eventVars, storeVars, codec, display>>

(* ------------------- NanachiManager::stop, TinaWorker::stop ----------- *)
\* if let Some(mut process) = self.process.take()
StopAlwaysHasProcess(slot) == TRUE
StopHasProcess(slot) == slot # 0

\* stop() with an empty slot.
StopNoop(c) ==
  /\ Holds(c, "stop") /\ ~StopHasProcess(process)
  /\ callers' = [callers EXCEPT ![c] = Returned(c, "Ok", 0, "stop_noop")]
  /\ Release(c)
  /\ UNCHANGED <<workerAlive, bridgeVars, procVars, pipeVars, eventVars, storeVars, codec, display>>

\* The slot self.process as send_command(Shutdown) finds it inside stop():
\* stop() has moved the handle out with take() before it calls send_command.
SlotAfterTake(p) == 0

\* stop() up to its sleep: take the handle, send Shutdown (result ignored).
StopTake(c) ==
  /\ Holds(c, "stop") /\ StopHasProcess(process)
  /\ LET r == SendCommand(SlotAfterTake(process), Line(c, "Shutdown")) IN
       /\ r.res # "Blocked"
       /\ stdinQ' = QueuesAfter(r)
       /\ enq' = EnqAfter(r, Line(c, "Shutdown"))
       /\ callers' = [callers EXCEPT ![c] = [@ EXCEPT !.pc = "sleep",
                         !.lines = @ + (IF r.res = "Ok" THEN 1 ELSE 0)]]
  /\ local' = process
  /\ process' = SlotAfterTake(process)
  /\ UNCHANGED <<workerAlive, lockVars, nspawned, manifest, nodeModules, pstate,
                 forcedBy, wpc, wline, written, nread, outPipe, emitted, rpc,
                 rline, pipeVars, eventVars, storeVars, codec, display>>

\* After the 500 ms sleep: kill().await, the handle is dropped, Ok returned.
StopKill(c) ==
  /\ callers[c].pc = "sleep" /\ callers[c].op = "stop"
  /\ pstate' = DropHandle(ForceKill(pstate, local), local)
  /\ forcedBy' = MarkForced(forcedBy, local, "stop")
  /\ local' = 0
  /\ callers' = [callers EXCEPT ![c] = Returned(c, "Ok", 0, "killed")]
  /\ Release(c)
  /\ UNCHANGED <<workerAlive, process, nspawned, manifest, nodeModules, stdinQ,
                 enq, wpc, wline, written, nread, outPipe, emitted, rpc, rline,
                 pipeVars, eventVars, storeVars, codec, display>>

(* ----------------------- NanachiManager::is_running ------------------- *)
\* try_wait reports the child still running: true, nothing changes.
IsRunningTrue(c) ==
  /\ Holds(c, "is_running") /\ process # 0 /\ pstate[process] = "running"
  /\ callers' = [callers EXCEPT ![c] = Returned(c, "true", 0, "polled")]
  /\ Release(c)
  /\ UNCHANGED <<workerAlive, bridgeVars, procVars, pipeVars, eventVars, storeVars, codec, display>>

\* self.process = None in the arm that is not Ok(None).
SlotKeptAfterPoll(p) == p
SlotAfterPoll(p) == 0

\* No handle, or try_wait reports an exit status or fails (the failure can
\* happen with the child alive): the slot is cleared, which drops the handle.
IsRunningFalse(c) ==
  /\ Holds(c, "is_running")
  /\ IF process = 0
     THEN UNCHANGED <<process, pstate, forcedBy>>
     ELSE /\ process' = SlotAfterPoll(process)
          /\ pstate' = IF SlotAfterPoll(process) = 0
                       THEN DropHandle(pstate, process) ELSE pstate
          /\ forcedBy' = IF KillOnDrop /\ SlotAfterPoll(process) = 0
                         THEN MarkForced(forcedBy, process, "poll")
                         ELSE forcedBy
  /\ callers' = [callers EXCEPT ![c] = Returned(c, "false", 0, IF process = 0 THEN "polled" ELSE "cleared")]
  /\ Release(c)
  /\ UNCHANGED <<workerAlive, local, nspawned, manifest, nodeModules, stdinQ, enq,
                 wpc, wline, written, nread, outPipe, emitted, rpc, rline,
                 pipeVars, eventVars, storeVars, codec, display>>

(* ------------- send_message, stop_account, start_account -------------- *)
CmdOf(op) == IF op = "send_message" THEN "SendMessage" ELSE "StopAccount"

\* send_message / stop_account under the read lock: one send_command. The
\* caller stays suspended while the stdin queue is full.
SendBody(c) ==
  /\ callers[c].pc = "held" /\ callers[c].op \in {"send_message", "stop_account"}
  /\ LET line == Line(c, CmdOf(callers[c].op))
         r == SendCommand(process, line) IN
       /\ r.res # "Blocked"
       /\ stdinQ' = QueuesAfter(r)
       /\ enq' = EnqAfter(r, line)
       /\ callers' = [callers EXCEPT ![c] =
                        Returned(c, r.res, IF r.res = "Ok" THEN 1 ELSE 0, "sent")]
  /\ Release(c)
  /\ UNCHANGED <<workerAlive, bridgeVars, pstate, forcedBy, wpc, wline, written,
                 nread, outPipe, emitted, rpc, rline, pipeVars, eventVars, storeVars, codec, display>>

\* start_account with a stored auth_state: SetAuthState first; an error
\* returns at once, else StartAccount follows under the same read lock.
StartAccountAuth(c) ==
  /\ Holds(c, "start_account") /\ callers[c].auth # Null
  /\ LET line == Line(c, "SetAuthState")
         r == SendCommand(process, line) IN
       /\ r.res # "Blocked"
       /\ stdinQ' = QueuesAfter(r)
       /\ enq' = EnqAfter(r, line)
       /\ IF r.res = "Ok"
          THEN /\ callers' = [callers EXCEPT ![c] = [@ EXCEPT !.pc = "held2",
                                                      !.lines = @ + 1]]
               /\ UNCHANGED lockVars
          ELSE /\ callers' = [callers EXCEPT ![c] = Returned(c, r.res, 0, "sent")]
               /\ Release(c)
  /\ UNCHANGED <<workerAlive, bridgeVars, pstate, forcedBy, wpc, wline, written,
                 nread, outPipe, emitted, rpc, rline, pipeVars, eventVars, storeVars, codec, display>>

\* The StartAccount command of start_account.
StartAccountSend(c) ==
  /\ callers[c].op = "start_account"
  /\ \/ callers[c].pc = "held2"
     \/ callers[c].pc = "held" /\ callers[c].auth = Null
  /\ LET line == Line(c, "StartAccount")
         r == SendCommand(process, line) IN
       /\ r.res # "Blocked"
       /\ stdinQ' = QueuesAfter(r)
       /\ enq' = EnqAfter(r, line)
       /\ callers' = [callers EXCEPT ![c] =
                        Returned(c, r.res, IF r.res = "Ok" THEN 1 ELSE 0, "sent")]
  /\ Release(c)
  /\ UNCHANGED <<workerAlive, bridgeVars, pstate, forcedBy, wpc, wline, written,
                 nread, outPipe, emitted, rpc, rline, pipeVars, eventVars, storeVars, codec, display>>

(* ------------------ drop of TinaWorker / NanachiManager --------------- *)
\* The owner drops the worker (no call is in flight: calls borrow it).
\* Drop for NanachiManager takes the handle and builds the kill() future
\* without polling it, so only dropping the handle acts on the process.
\* Receivers nobody took are dropped with their owners.
WorkerDrop ==
  /\ workerAlive /\ \A c \in Callers : callers[c].pc = "idle"
  /\ workerAlive' = FALSE
  /\ IF process = 0
     THEN UNCHANGED <<process, pstate, forcedBy>>
     ELSE /\ process' = 0
          /\ pstate' = DropHandle(pstate, process)
          /\ forcedBy' = IF KillOnDrop THEN MarkForced(forcedBy, process, "drop")
                         ELSE forcedBy
  /\ inboundRx' = IF inboundRx = "manager" THEN "dropped" ELSE inboundRx
  /\ eventRx' = IF eventRx = "worker" THEN "dropped" ELSE eventRx
  /\ UNCHANGED <<callers, lockVars, local, nspawned, manifest, nodeModules, stdinQ,
                 enq, wpc, wline, written, nread, outPipe, emitted, rpc, rline,
                 inbound, plpc, plcur, todo, trace, events, produced, delivered,
                 storeVars, codec, display>>

(* ------------------------ writer task (process.rs) -------------------- *)
\* The writer task is at stdin_rx.recv(): it has no line in hand, the
\* write_all and flush of the line before have completed.
WriterNotAwaiting(p) == wpc[p] \in {"recv", "write"}
WriterAtRecv(p) == wpc[p] = "recv"

\* stdin_rx.recv() yields the oldest queued line.
WriterRecv(p) ==
  /\ Spawned(p) /\ WriterAtRecv(p) /\ stdinQ[p] # <<>>
  /\ wline' = [wline EXCEPT ![p] = [line |-> Head(stdinQ[p]), done |-> 0]]
  /\ stdinQ' = [stdinQ EXCEPT ![p] = Tail(@)]
  /\ wpc' = [wpc EXCEPT ![p] = "write"]
  /\ UNCHANGED <<callers, workerAlive, lockVars, bridgeVars, pstate, forcedBy, enq,
                 written, nread, outPipe, emitted, rpc, rline, pipeVars, eventVars,
                 storeVars, codec, display>>

\* recv() yields None: the queue is empty and stdin_tx was dropped with the handle.
WriterClose(p) ==
  /\ Spawned(p) /\ WriterAtRecv(p) /\ stdinQ[p] = <<>> /\ ~HandleLive(p)
  /\ wpc' = [wpc EXCEPT ![p] = "done"]
  /\ UNCHANGED <<callers, workerAlive, lockVars, bridgeVars, pstate, forcedBy,
                 stdinQ, enq, wline, written, nread, outPipe, emitted, rpc, rline,
                 pipeVars, eventVars, storeVars, codec, display>>

\* write_all moves the next part of the line into the stdin pipe when the
\* pipe has room; after the last part (and the flush) the task is back at recv.
WriterWrite(p) ==
  /\ Spawned(p) /\ wpc[p] = "write" /\ pstate[p] = "running"
  /\ Len(written[p]) - nread[p] < PipeCap
  /\ written' = [written EXCEPT ![p] = Append(@, <<wline[p].line, wline[p].done + 1>>)]
  /\ IF wline[p].done + 1 = ChunksPerLine
     THEN /\ wpc' = [wpc EXCEPT ![p] = "recv"]
          /\ wline' = [wline EXCEPT ![p] = [line |-> NoLine, done |-> 0]]
     ELSE /\ wline' = [wline EXCEPT ![p].done = @ + 1]
          /\ UNCHANGED wpc
  /\ UNCHANGED <<callers, workerAlive, lockVars, bridgeVars, pstate, forcedBy,
                 stdinQ, enq, nread, outPipe, emitted, rpc, rline, pipeVars,
                 eventVars, storeVars, codec, display>>

\* write_all or flush fails on the pipe of a dead engine: the task breaks
\* out of its loop, which drops stdin_rx and what is still queued.
WriterFail(p) ==
  /\ Spawned(p) /\ wpc[p] = "write" /\ pstate[p] = "dead"
  /\ wpc' = [wpc EXCEPT ![p] = "done"]
  /\ wline' = [wline EXCEPT ![p] = [line |-> NoLine, done |-> 0]]
  /\ stdinQ' = [stdinQ EXCEPT ![p] = <<>>]
  /\ UNCHANGED <<callers, workerAlive, lockVars, bridgeVars, pstate, forcedBy, enq,
                 written, nread, outPipe, emitted, rpc, rline, pipeVars, eventVars,
                 storeVars, codec, display>>

(* ------------------------------ the engine ---------------------------- *)
\* Sample items of the bulk events: ContactData, ParticipantData, GroupData
\* and MessageData values.
JidOf(i) == "j" \o ToString(i)
GidOf(i) == "g" \o ToString(i)
MidOf(i) == "m" \o ToString(i)
ContactOf(jid, v) ==
  [jid |-> jid, lid |-> v, phone_number |-> v, name |-> v, notify |-> v,
   verified_name |-> v, img_url |-> v, status |-> v]
ParticipantOf(id) == [id |-> id, admin |-> <<>>, phone_number |-> <<"x">>]
GroupOf(jid, v, ps) ==
  [jid |-> jid, subject |-> v, owner |-> v, description |-> v, participants |-> ps]
MessageOf(id, content) ==
  [message_id |-> id, chat_jid |-> "j1", sender_jid |-> "j2", content |-> content,
   message_type |-> "text", timestamp |-> 1, is_from_me |-> FALSE, raw_json |-> <<>>]

\* A stdout line: the event's tag (or what else the line holds), its account
\* id, its count and its items.
OutLine(kind, acct, n, items) == [kind |-> kind, acct |-> acct, n |-> n, items |-> items]
Batch(n) == [i \in 1..n |-> ContactOf(JidOf(i), <<"x">>)]

\* The stdout lines an engine may write: kind, account id, items of a batch.
EngineLines ==
  { OutLine("Ready", "", 0, <<>>),
    OutLine("AuthStateUpdated", "acme", 0, <<"auth1">>),
    OutLine("ContactsUpsert", "acme", BatchLen, Batch(BatchLen)),
    OutLine("ContactsUpsert", "ghost", BatchLen, Batch(BatchLen)),
    OutLine("Malformed", "", 0, <<>>) }

\* Lines that are no Event envelope: not JSON at all, the empty line, a
\* Command envelope, and bytes that are not UTF-8.
BadLines ==
  { OutLine("Malformed", "", 0, <<>>), OutLine("Empty", "", 0, <<>>),
    OutLine("Shutdown", "", 0, <<>>), OutLine("InvalidUtf8", "", 0, <<>>) }
DecodeLines ==
  BadLines \cup { OutLine("Ready", "", 0, <<>>),
                  OutLine("ContactsUpdate", "acme", 1, Batch(1)) }

\* Bulk events of several items, each with a key of its own.
Contacts(n) == [i \in 1..n |-> ContactOf(JidOf(i), <<"x">>)]
Groups(n) == [i \in 1..n |-> GroupOf(GidOf(i), <<"x">>, <<ParticipantOf("p1")>>)]
Messages(n) == [i \in 1..n |-> MessageOf(MidOf(i), <<"x">>)]
SyncLines ==
  {OutLine("ContactsUpsert", "acme", n, Contacts(n)) :
     n \in {SmallBatch, MidBatch, LargeBatch}}
  \cup {OutLine("GroupsUpsert", "acme", n, Groups(n)) : n \in {SmallBatch, LargeBatch}}
\* MessagesUpsert batches below, at, just past and well past the threshold
\* of the progress events.
MessageLines ==
  {OutLine("MessagesUpsert", "acme", n, Messages(n)) :
     n \in {SmallBatch, MessagesProgressMin, MessagesProgressMin + 1, LargeBatch}}
\* The events that are no bulk upserts, with sample fields: qr, phone_number
\* (an Option), reason, error; the account id of Error is an Option, "" is
\* its None.
PlainLines ==
  { OutLine("Ready", "", 0, <<>>), OutLine("Ready", "acme", 0, <<>>),
    OutLine("QrCode", "acme", 0, <<"qr1">>),
    OutLine("Connected", "acme", 0, << <<"555">> >>),
    OutLine("Connected", "acme", 0, << <<>> >>),
    OutLine("Disconnected", "acme", 0, <<"bye">>),
    OutLine("LoggedOut", "acme", 0, <<>>),
    OutLine("Error", "", 0, <<"boom">>), OutLine("Error", "acme", 0, <<"boom">>),
    OutLine("HistorySyncComplete", "acme", 7, <<>>),
    OutLine("ContactsUpdate", "acme", 1, Contacts(1)),
    OutLine("GroupsUpdate", "acme", 1, Groups(1)),
    OutLine("AuthStateUpdated", "acme", 0, <<"auth1">>),
    OutLine("CommandResult", "", 0, <<>>) }

\* AuthStateUpdated events, and an event that is published.
AuthLines ==
  { OutLine("AuthStateUpdated", "acme", 0, <<"auth1">>),
    OutLine("AuthStateUpdated", "acme", 0, <<"auth2">>),
    OutLine("AuthStateUpdated", "ghost", 0, <<"auth1">>),
    OutLine("Ready", "acme", 0, <<>>) }
FaultLines ==
  { OutLine("ContactsUpsert", "acme", SmallBatch, Contacts(SmallBatch)),
    OutLine("ContactsUpdate", "acme", SmallBatch, Contacts(SmallBatch)),
    OutLine("GroupsUpsert", "acme", SmallBatch, Groups(SmallBatch)),
    OutLine("GroupsUpdate", "acme", SmallBatch, Groups(SmallBatch)),
    OutLine("MessagesUpsert", "acme", SmallBatch, Messages(SmallBatch)) }

\* Bulk events whose items meet rows already stored.
StoreLines ==
  { OutLine("ContactsUpdate", "acme", 1, <<ContactOf("j1", <<>>)>>),
    OutLine("ContactsUpsert", "acme", 1, <<ContactOf("j1", <<"y">>)>>),
    OutLine("GroupsUpsert", "acme", 1, <<GroupOf("g1", <<"x">>, <<ParticipantOf("p1")>>)>>),
    OutLine("GroupsUpsert", "acme", 1, <<GroupOf("g1", <<>>, <<>>)>>),
    OutLine("GroupsUpdate", "acme", 1, <<GroupOf("g1", <<>>, <<>>)>>),
    OutLine("GroupsUpdate", "acme", 1, <<GroupOf("g1", <<>>, <<ParticipantOf("p2")>>)>>),
    OutLine("MessagesUpsert", "acme", 2, <<MessageOf("m1", <<"x">>), MessageOf("m1", <<"y">>)>>),
    OutLine("MessagesUpsert", "ghost", 1, <<MessageOf("m1", <<"x">>)>>) }

\* The engine reads some of its stdin (it need not).
EngineRead(p) ==
  /\ Spawned(p) /\ pstate[p] = "running" /\ nread[p] < Len(written[p])
  /\ nread' = [nread EXCEPT ![p] = @ + 1]
  /\ UNCHANGED <<callers, workerAlive, lockVars, bridgeVars, pstate, forcedBy,
                 stdinQ, enq, wpc, wline, written, outPipe, emitted, rpc, rline,
                 pipeVars, eventVars, storeVars, codec, display>>

RECURSIVE TotalEmitted(_)
TotalEmitted(p) == IF p = 0 THEN 0 ELSE emitted[p] + TotalEmitted(p - 1)

\* An engine writes a line to its stdout.
EngineEmit(p, l) ==
  /\ Spawned(p) /\ pstate[p] = "running" /\ TotalEmitted(MaxSpawns) < MaxLines
  /\ emitted' = [emitted EXCEPT ![p] = @ + 1]
  /\ outPipe' = [outPipe EXCEPT ![p] =
                   Append(@, [p |-> p, k |-> emitted[p] + 1, kind |-> l.kind,
                              acct |-> l.acct, n |-> l.n, items |-> l.items])]
  /\ UNCHANGED <<callers, workerAlive, lockVars, bridgeVars, pstate, forcedBy,
                 stdinQ, enq, wpc, wline, written, nread, rpc, rline, pipeVars,
                 eventVars, storeVars, codec, display>>

\* The engine exits by itself.
EngineExit(p) ==
  /\ Spawned(p) /\ pstate[p] = "running"
  /\ pstate' = [pstate EXCEPT ![p] = "dead"]
  /\ UNCHANGED <<callers, workerAlive, lockVars, bridgeVars, forcedBy, stdinQ, enq,
                 wpc, wline, written, nread, outPipe, emitted, rpc, rline,
                 pipeVars, eventVars, storeVars, codec, display>>

(* ------------------------ reader task (process.rs) -------------------- *)
\* lines.next_line() yields the next stdout line.
ReaderRead(p) ==
  /\ Spawned(p) /\ rpc[p] = "read" /\ outPipe[p] # <<>>
  /\ Head(outPipe[p]).kind # "InvalidUtf8"
  /\ rline' = [rline EXCEPT ![p] = Head(outPipe[p])]
  /\ outPipe' = [outPipe EXCEPT ![p] = Tail(@)]
  /\ rpc' = [rpc EXCEPT ![p] = "send"]
  /\ UNCHANGED <<callers, workerAlive, lockVars, bridgeVars, pstate, forcedBy,
                 stdinQ, enq, wpc, wline, written, nread, emitted, pipeVars,
                 eventVars, storeVars, codec, display>>

\* next_line() yields None at the end of the stream of a dead engine.
ReaderEof(p) ==
  /\ Spawned(p) /\ rpc[p] = "read" /\ outPipe[p] = <<>> /\ pstate[p] = "dead"
  /\ rpc' = [rpc EXCEPT ![p] = "done"]
  /\ UNCHANGED <<callers, workerAlive, lockVars, bridgeVars, pstate, forcedBy,
                 stdinQ, enq, wpc, wline, written, nread, outPipe, emitted, rline,
                 pipeVars, eventVars, storeVars, codec, display>>

\* next_line() yields Err for a line that is not UTF-8: `while let
\* Ok(Some(line))` ends, the task ends and drops the engine's stdout.
ReaderFail(p) ==
  /\ Spawned(p) /\ rpc[p] = "read" /\ outPipe[p] # <<>>
  /\ Head(outPipe[p]).kind = "InvalidUtf8"
  /\ rpc' = [rpc EXCEPT ![p] = "done"]
  /\ UNCHANGED <<callers, workerAlive, lockVars, bridgeVars, pstate, forcedBy,
                 stdinQ, enq, wpc, wline, written, nread, outPipe, emitted, rline,
                 pipeVars, eventVars, storeVars, codec, display>>

\* event_tx_clone.send(line).await: suspended while the inbound channel is
\* full; the task ends if the receiver is gone.
ReaderSend(p) ==
  /\ Spawned(p) /\ rpc[p] = "send"
  /\ IF inboundRx = "dropped" \/ plpc = "done"
     THEN /\ rpc' = [rpc EXCEPT ![p] = "done"]
          /\ UNCHANGED inbound
     ELSE /\ \E q \in ChanSend(inbound, InboundCap, rline[p]) : inbound' = q
          /\ rpc' = [rpc EXCEPT ![p] = "read"]
  /\ rline' = [rline EXCEPT ![p] = NoOut]
  /\ UNCHANGED <<callers, workerAlive, lockVars, bridgeVars, pstate, forcedBy,
                 stdinQ, enq, wpc, wline, written, nread, outPipe, emitted,
                 inboundRx, plpc, plcur, todo, trace, eventVars, storeVars, codec, display>>

(* ---------------------- handle_ipc_event (worker.rs) ------------------ *)
Ev(t, a, sync, n, of) ==
  [t |-> t, acct |-> a, sync |-> sync, n |-> n, of |-> of, data |-> <<>>]
\* A WorkerEvent built from the fields of the IpcEvent (qr, phone_number,
\* reason, error).
EvData(t, a, d) == [Ev(t, a, "none", 0, 0) EXCEPT !.data = d]
RepublishedBare(l) == Ev(l.kind, l.acct, "none", 0, 0)
Republished(l) == EvData(l.kind, l.acct, l.items)
Pub(e) == [t |-> "pub", ev |-> e, op |-> "none", acct |-> e.acct, key |-> "",
           cols |-> <<>>]
Db(op, a, key, cols) ==
  [t |-> "db", ev |-> Ev("none", a, "none", 0, 0), op |-> op, acct |-> a,
   key |-> key, cols |-> cols]

\* The arguments handle_ipc_event passes to the repository for one item
\* (as_deref keeps an Option as it is).
ContactArgs(c) ==
  [lid |-> c.lid, phone_number |-> c.phone_number, name |-> c.name,
   notify_name |-> c.notify, verified_name |-> c.verified_name,
   img_url |-> c.img_url, status |-> c.status, is_local |-> FALSE]
\* GroupsUpsert: serde_json::to_string(&group.participants).ok()
UpsertParticipants(ps) == <<Ser("Vec<ParticipantData>", ps)>>
\* GroupsUpdate: None if group.participants.is_empty()
UpdateParticipants(ps) ==
  IF ps = <<>> THEN <<>> ELSE <<Ser("Vec<ParticipantData>", ps)>>
GroupArgs(g, pj) ==
  [subject |-> g.subject, owner |-> g.owner, description |-> g.description,
   participants_json |-> pj]
MessageArgs(m) ==
  [chat_jid |-> m.chat_jid, sender_jid |-> m.sender_jid, content |-> m.content,
   message_type |-> m.message_type, timestamp |-> m.timestamp,
   is_from_me |-> m.is_from_me, raw_json |-> m.raw_json]

\* count > 10 && i % 50 == 0, and count > 50 && i % 100 == 0
ProgressAlways(count, i, min, every) == i % every = 0
ProgressDue(count, i, min, every) == count > min /\ i % every = 0

\* for (i, contact) in contacts.iter().enumerate(): upsert, then the progress
\* event when count > 10 && i % 50 == 0.
\* The body of the loop for index i (from 0).
ContactItem(a, items, i) ==
  <<Db("upsert_contact", a, items[i + 1].jid, ContactArgs(items[i + 1]))>>
  \o (IF ProgressDue(Len(items), i, ContactsProgressMin, ContactsProgressEvery)
      THEN <<Pub(Ev("SyncProgress", a, "Contacts", i + 1, Len(items)))>>
      ELSE <<>>)
\* The loop for the indices lo .. hi - 1, in order.
RECURSIVE ContactRange(_, _, _, _)
ContactRange(a, items, lo, hi) ==
  IF lo >= hi THEN <<>>
  ELSE IF hi = lo + 1 THEN ContactItem(a, items, lo)
  ELSE ContactRange(a, items, lo, (lo + hi) \div 2)
       \o ContactRange(a, items, (lo + hi) \div 2, hi)
ContactItems(a, items, i) == ContactRange(a, items, i, Len(items))

\* for contact in &contacts: upsert (ContactsUpdate).
RECURSIVE ContactUpdates(_, _, _)
ContactUpdates(a, items, i) ==
  IF i >= Len(items) THEN <<>>
  ELSE <<Db("upsert_contact", a, items[i + 1].jid, ContactArgs(items[i + 1]))>>
       \o ContactUpdates(a, items, i + 1)

\* for group in groups: upsert (GroupsUpsert, and GroupsUpdate when `update`).
GroupItem(a, items, i, update) ==
  <<Db("upsert_group", a, items[i + 1].jid,
       GroupArgs(items[i + 1],
                 IF update THEN UpdateParticipants(items[i + 1].participants)
                 ELSE UpsertParticipants(items[i + 1].participants)))>>
RECURSIVE GroupRange(_, _, _, _, _)
GroupRange(a, items, lo, hi, update) ==
  IF lo >= hi THEN <<>>
  ELSE IF hi = lo + 1 THEN GroupItem(a, items, lo, update)
  ELSE GroupRange(a, items, lo, (lo + hi) \div 2, update)
       \o GroupRange(a, items, (lo + hi) \div 2, hi, update)
GroupItems(a, items, i, update) == GroupRange(a, items, i, Len(items), update)

\* for (i, msg) in messages.iter().enumerate(): insert, then the progress
\* event when count > 50 && i % 100 == 0.
\* The body of the loop for index i (from 0).
MessageItem(a, items, i) ==
  <<Db("insert_message", a, items[i + 1].message_id, MessageArgs(items[i + 1]))>>
  \o (IF ProgressDue(Len(items), i, MessagesProgressMin, MessagesProgressEvery)
      THEN <<Pub(Ev("SyncProgress", a, "Messages", i + 1, Len(items)))>>
      ELSE <<>>)
\* The loop for the indices lo .. hi - 1, in order.
RECURSIVE MessageRange(_, _, _, _)
MessageRange(a, items, lo, hi) ==
  IF lo >= hi THEN <<>>
  ELSE IF hi = lo + 1 THEN MessageItem(a, items, lo)
  ELSE MessageRange(a, items, lo, (lo + hi) \div 2)
       \o MessageRange(a, items, (lo + hi) \div 2, hi)
MessageItems(a, items, i) == MessageRange(a, items, i, Len(items))

\* The store writes and publishes of handle_ipc_event for one event, in order.
Effects(l) ==
  CASE l.kind = "Ready" ->
         IF l.acct = "" THEN <<Pub(Ev("NanachiReady", "", "none", 0, 0))>>
         ELSE <<Pub(Ev("AccountReady", l.acct, "none", 0, 0))>>
    [] l.kind \in {"QrCode", "Connected", "Disconnected", "LoggedOut", "Error"} ->
         <<Pub(Republished(l))>>
    [] l.kind = "AuthStateUpdated" ->
         <<Db("save_auth_state", l.acct, "", [auth_state |-> l.items[1]])>>
    [] l.kind = "ContactsUpsert" ->
         <<Pub(Ev("SyncStarted", l.acct, "Contacts", 0, 0))>>
         \o ContactItems(l.acct, l.items, 0)
         \o <<Pub(Ev("SyncCompleted", l.acct, "Contacts", Len(l.items), 0)),
              Pub(Ev("ContactsSynced", l.acct, "none", Len(l.items), 0))>>
    [] l.kind = "ContactsUpdate" -> ContactUpdates(l.acct, l.items, 0)
    [] l.kind = "GroupsUpsert" ->
         <<Pub(Ev("SyncStarted", l.acct, "Groups", 0, 0))>>
         \o GroupItems(l.acct, l.items, 0, FALSE)
         \o <<Pub(Ev("SyncCompleted", l.acct, "Groups", Len(l.items), 0)),
              Pub(Ev("GroupsSynced", l.acct, "none", Len(l.items), 0))>>
    [] l.kind = "GroupsUpdate" -> GroupItems(l.acct, l.items, 0, TRUE)
    [] l.kind = "MessagesUpsert" ->
         <<Pub(Ev("SyncStarted", l.acct, "Messages", 0, 0))>>
         \o MessageItems(l.acct, l.items, 0)
         \o <<Pub(Ev("SyncCompleted", l.acct, "Messages", Len(l.items), 0)),
              Pub(Ev("MessagesSynced", l.acct, "none", Len(l.items), 0))>>
    [] l.kind = "HistorySyncComplete" ->
         <<Pub(Ev("SyncCompleted", l.acct, "History", l.n, 0)),
           Pub(Ev("HistorySyncComplete", l.acct, "none", l.n, 0))>>
    [] OTHER -> <<>>

\* NanachiManager::parse_event: None for a line that is no Event envelope
\* (not JSON, empty, or an envelope whose content is a Command).
DecodableAlways(l) == TRUE
Decodable(l) == l.kind \in EventTags

(* ------------------------------ the store ----------------------------- *)
\* SqlitePool::connect: sqlx turns PRAGMA foreign_keys on for each connection.
ForeignKeysOff == FALSE
ForeignKeys == TRUE
\* FOREIGN KEY (account_id) REFERENCES accounts(id) ON DELETE CASCADE
OnDeleteCascadeOff == FALSE
OnDeleteCascade == TRUE

TableOf(op) == CASE op = "upsert_contact" -> "contacts"
                 [] op = "upsert_group" -> "groups"
                 [] OTHER -> "messages"
RowOps == {"upsert_contact", "upsert_group", "insert_message"}

\* The rows a statement conflicts with: UNIQUE(account_id, jid) and
\* UNIQUE(account_id, message_id).
RowsAt(rs, t, a, k) == {r \in rs : r.table = t /\ r.acct = a /\ r.key = k}
RowsOf(rs, a) == {r \in rs : r.acct = a}

\* col = COALESCE(excluded.col, col)
CoalesceOverwrite(new, old) == new
Coalesce(new, old) == IF new # <<>> THEN new ELSE old
\* ON CONFLICT(account_id, jid) DO UPDATE SET ...: is_local is taken from
\* the new values, every other column is coalesced.
Merged(old, new) ==
  [f \in DOMAIN new |-> IF f = "is_local" THEN new[f] ELSE Coalesce(new[f], old[f])]
\* INSERT OR IGNORE: the stored row stays.
InsertOrReplace(old, new) == new
InsertOrIgnore(old, new) == old

\* The repository call e does not fail: a child row needs its account row;
\* an UPDATE or DELETE of an absent account changes no row and is no error.
DbOk(e) ==
  CASE e.op \in RowOps -> ~ForeignKeys \/ e.acct \in accounts
    [] e.op = "delete_account" ->
         ~ForeignKeys \/ OnDeleteCascade \/ RowsOf(rows, e.acct) = {}
    [] OTHER -> TRUE

\* The rows after the upsert or insert e.
RowsAfter(e) ==
  LET hit == RowsAt(rows, TableOf(e.op), e.acct, e.key) IN
    IF hit = {}
    THEN rows \cup {[table |-> TableOf(e.op), acct |-> e.acct, key |-> e.key,
                     cols |-> e.cols]}
    ELSE (rows \ hit)
         \cup {[r EXCEPT !.cols = IF e.op = "insert_message"
                                  THEN InsertOrIgnore(r.cols, e.cols)
                                  ELSE Merged(r.cols, e.cols)] : r \in hit}

\* chrono_timestamp(): the time of a repository call; each call is later
\* than the one before.
Now == lastCall.n + 1

\* INSERT INTO accounts (id, name, created_at, updated_at) ... ON CONFLICT(id)
\* DO UPDATE SET name = excluded.name, updated_at = excluded.updated_at: the
\* account row after create_account, `old` the row it meets.
OnConflictReplace(old, new) == new
OnConflictUpdate(old, new) ==
  [old EXCEPT !.name = new.name, !.updated_at = new.updated_at]
AccountRow(a) ==
  [name |-> acctCols[a].name, auth_state |-> authState[a],
   created_at |-> acctCols[a].created_at, updated_at |-> acctCols[a].updated_at]
AccountAfterCreate(e) ==
  LET new == [name |-> e.cols.name, auth_state |-> Null,
              created_at |-> Now, updated_at |-> Now]
  IN IF e.acct \in accounts THEN OnConflictUpdate(AccountRow(e.acct), new) ELSE new

\* UPDATE accounts SET auth_state = ?, updated_at = ? WHERE id = ?
SavedAuthKept(old, new) == old
SavedAuth(old, new) == new

\* One repository call: create_account, delete_account, save_auth_state,
\* upsert_contact, upsert_group, insert_message.
DbApply(e) ==
  /\ accounts' = IF ~DbOk(e) THEN accounts
                 ELSE IF e.op = "create_account" THEN accounts \cup {e.acct}
                 ELSE IF e.op = "delete_account" THEN accounts \ {e.acct}
                 ELSE accounts
  /\ authState' = IF ~DbOk(e) THEN authState
                  ELSE IF e.op = "create_account"
                  THEN [authState EXCEPT ![e.acct] = AccountAfterCreate(e).auth_state]
                  ELSE IF e.op = "save_auth_state" /\ e.acct \in accounts
                  THEN [authState EXCEPT ![e.acct] = SavedAuth(@, e.cols.auth_state)]
                  ELSE IF e.op = "delete_account"
                  THEN [authState EXCEPT ![e.acct] = Null]
                  ELSE authState
  /\ acctCols' = IF ~DbOk(e) THEN acctCols
                 ELSE IF e.op = "create_account"
                 THEN [acctCols EXCEPT ![e.acct] =
                         [name |-> AccountAfterCreate(e).name,
                          created_at |-> AccountAfterCreate(e).created_at,
                          updated_at |-> AccountAfterCreate(e).updated_at]]
                 ELSE IF e.op = "save_auth_state" /\ e.acct \in accounts
                 THEN [acctCols EXCEPT ![e.acct].updated_at = Now]
                 ELSE IF e.op = "delete_account"
                 THEN [acctCols EXCEPT ![e.acct] = NoAccount]
                 ELSE acctCols
  /\ rows' = IF ~DbOk(e) THEN rows
             ELSE IF e.op \in RowOps THEN RowsAfter(e)
             ELSE IF e.op = "delete_account" /\ ForeignKeys /\ OnDeleteCascade
             THEN rows \ RowsOf(rows, e.acct)
             ELSE rows
  /\ lastCall' = [n |-> lastCall.n + 1, op |-> e.op, acct |-> e.acct,
                  key |-> e.key, cols |-> e.cols,
                  res |-> IF DbOk(e) THEN "Ok" ELSE "Err",
                  had |-> Cardinality(RowsOf(rows, e.acct)), out |-> <<>>]

\* Repository calls of the front end: create_account and delete_account of
\* TinaWorker, and the upserts and inserts of TinaDb with sample arguments.
NoCols == ContactArgs(ContactOf("", <<>>))
OneCol(f, v) == [NoCols EXCEPT ![f] = v]
FrontCalls ==
  {Db("delete_account", a, "", <<>>) : a \in AccountIds}
  \cup {Db("create_account", a, "", [name |-> nm]) :
          a \in AccountIds, nm \in {<<>>, <<"Bea">>}}
  \cup {Db("upsert_contact", "acme", "j1", cols) :
          cols \in {NoCols, ContactArgs(ContactOf("", <<"x">>))}
                   \cup {OneCol(f, <<"z">>) : f \in DOMAIN NoCols \ {"is_local"}}
                   \cup {OneCol("is_local", TRUE)}}
  \cup {Db("insert_message", a, "m1", MessageArgs(MessageOf("m1", <<"z">>))) :
          a \in AccountIds}

\* A repository call made by the front end.
StoreCall(e) ==
  /\ workerAlive /\ storeOps < MaxStoreOps
  /\ DbApply(e)
  /\ storeOps' = storeOps + 1
  /\ UNCHANGED <<callers, workerAlive, lockVars, bridgeVars, procVars, pipeVars,
                 eventVars, codec, display>>

\* get_chats: SELECT chat_jid FROM messages WHERE account_id = ? GROUP BY
\* chat_jid ORDER BY MAX(timestamp) DESC. Groups with the same maximum come
\* in an order SQLite chooses.
MessagesOf(a) == {r \in rows : r.table = "messages" /\ r.acct = a}
ChatJids(a) == {r.cols.chat_jid : r \in MessagesOf(a)}
MaxTimestamp(a, j) ==
  LET ts == {r.cols.timestamp : r \in {m \in MessagesOf(a) : m.cols.chat_jid = j}}
  IN CHOOSE t \in ts : \A u \in ts : u <= t
OrderAsc(x, y) == x <= y
OrderDesc(x, y) == x >= y
ChatLists(a) ==
  {s \in [1..Cardinality(ChatJids(a)) -> ChatJids(a)] :
     /\ \A i, k \in DOMAIN s : i # k => s[i] # s[k]
     /\ \A i, k \in DOMAIN s :
          i < k => OrderDesc(MaxTimestamp(a, s[i]), MaxTimestamp(a, s[k]))}

\* Messages of several chats and times, as the front end may insert them.
ChatCalls ==
  {Db("insert_message", a, m,
      MessageArgs([MessageOf(m, <<"x">>) EXCEPT !.chat_jid = j, !.timestamp = t])) :
     a \in AccountIds, m \in {"m1", "m2"}, j \in {"c1", "c2"}, t \in {1, 2}}
  \cup {Db("create_account", "ghost", "", [name |-> <<>>])}

\* A repository call of a run that lists chats.
ChatCall(e) ==
  /\ workerAlive /\ storeOps < MaxChatOps
  /\ DbApply(e)
  /\ storeOps' = storeOps + 1
  /\ UNCHANGED <<callers, workerAlive, lockVars, bridgeVars, procVars, pipeVars,
                 eventVars, codec, display>>

\* TinaWorker::get_chats / TinaDb::get_chats.
GetChats(a) ==
  /\ workerAlive /\ storeOps < MaxChatOps
  /\ \E s \in ChatLists(a) :
       lastCall' = [n |-> lastCall.n + 1, op |-> "get_chats", acct |-> a,
                    key |-> "", cols |-> <<>>, res |-> "Ok",
                    had |-> Cardinality(RowsOf(rows, a)), out |-> s]
  /\ storeOps' = storeOps + 1
  /\ UNCHANGED <<callers, workerAlive, lockVars, bridgeVars, procVars, pipeVars,
                 eventVars, accounts, authState, acctCols, rows, codec, display>>

(* ----------------------- pipeline task (worker.rs) -------------------- *)
Entry(what, l) == [what |-> what, p |-> l.p, k |-> l.k]

\* The pipeline task is at rx.recv(): handle_ipc_event of the line before
\* has been awaited to its end.
PipelineNotAwaiting == plpc \in {"recv", "handle"}
PipelineAtRecv == plpc \in {"recv"}

\* rx.recv() yields the oldest inbound line; a line parse_event rejects is
\* skipped, any other is handed to handle_ipc_event.
PipeRecv ==
  /\ PipelineAtRecv /\ inbound # <<>>
  /\ inbound' = Tail(inbound)
  /\ LET l == Head(inbound) IN
       IF ~Decodable(l)
       THEN /\ trace' = Append(trace, Entry("discard", l))
            /\ UNCHANGED <<plpc, plcur, todo>>
       ELSE IF Effects(l) = <<>>
       THEN /\ trace' = trace \o <<Entry("begin", l), Entry("end", l)>>
            /\ UNCHANGED <<plpc, plcur, todo>>
       ELSE /\ trace' = Append(trace, Entry("begin", l))
            /\ plpc' = "handle" /\ plcur' = l /\ todo' = Effects(l)
  /\ UNCHANGED <<callers, workerAlive, lockVars, bridgeVars, procVars, inboundRx,
                 eventVars, storeVars, codec, display>>

\* recv() yields None: the channel is empty and every sender (the manager's
\* event_tx and the reader tasks' clones) is gone.
\* The senders of the inbound channel: the event_tx the manager keeps for
\* its whole life, and the clone each reader task holds until it ends.
ReadersGone == \A p \in PIDs : Spawned(p) => rpc[p] = "done"
SendersGone == ~workerAlive /\ \A p \in PIDs : Spawned(p) => rpc[p] = "done"
PipeClose ==
  /\ PipelineAtRecv /\ inbound = <<>>
  /\ SendersGone
  /\ plpc' = "done"
  /\ UNCHANGED <<callers, workerAlive, lockVars, bridgeVars, procVars, inbound,
                 inboundRx, plcur, todo, trace, eventVars, storeVars, codec, display>>

\* `if let Err(e) = handle_ipc_event(..).await { error!(..) }` inside the
\* `while let`: whatever the handler returned, the task is at rx.recv() again.
LoopBreaksOnError(what) == IF what = "dberr" THEN "done" ELSE "recv"
LoopAfterHandler(what) == "recv"

\* `?` on the error of a store call: handle_ipc_event returns, what it had
\* left to do is not done.
RestAfterErrorKept(rest) == rest
RestAfterError(rest) == <<>>

\* What is left of the handler after its current effect.
Advance(rest, what) ==
  /\ todo' = rest
  /\ IF rest = <<>>
     THEN /\ plpc' = LoopAfterHandler(what) /\ plcur' = NoOut
          /\ trace' = trace \o <<Entry(what, plcur), Entry("end", plcur)>>
     ELSE /\ trace' = Append(trace, Entry(what, plcur))
          /\ UNCHANGED <<plpc, plcur>>

\* One store call of the handler; its error returns from the handler (`?`),
\* is logged by the task, and the task goes on with the next line.
PipeDb ==
  /\ plpc = "handle" /\ Head(todo).t = "db"
  /\ DbApply(Head(todo))
  /\ IF DbOk(Head(todo)) THEN Advance(Tail(todo), "db")
     ELSE Advance(RestAfterError(Tail(todo)), "dberr")
  /\ UNCHANGED <<callers, workerAlive, lockVars, bridgeVars, procVars, inbound,
                 inboundRx, eventVars, storeOps, codec, display>>

\* A store call of the handler that fails in the database itself
\* (`.execute(&self.pool).await?` yields a sqlx error): no row changes.
PipeDbErr ==
  /\ plpc = "handle" /\ Head(todo).t = "db"
  /\ lastCall' = [n |-> lastCall.n + 1, op |-> Head(todo).op,
                  acct |-> Head(todo).acct, key |-> Head(todo).key,
                  cols |-> Head(todo).cols, res |-> "Err",
                  had |-> Cardinality(RowsOf(rows, Head(todo).acct)), out |-> <<>>]
  /\ Advance(RestAfterError(Tail(todo)), "dberr")
  /\ UNCHANGED <<callers, workerAlive, lockVars, bridgeVars, procVars, inbound,
                 inboundRx, eventVars, accounts, authState, acctCols, rows,
                 storeOps, codec, display>>

\* One `let _ = event_tx.send(..).await` of the handler: suspended while
\* the event channel is full, ignored when its receiver is gone.
\* The rest of the handler after a send that failed on a closed channel:
\* `let _ =` drops the error, the handler goes on.
RestAfterSendErrorNone(rest) == <<>>
RestAfterSendError(rest) == rest
PipePublish ==
  /\ plpc = "handle" /\ Head(todo).t = "pub"
  /\ IF eventRx = "dropped"
     THEN UNCHANGED <<events, produced>>
     ELSE /\ \E q \in ChanSend(events, EventCap, Head(todo).ev) : events' = q
          /\ produced' = Append(produced, Head(todo).ev)
  /\ Advance(IF eventRx = "dropped" THEN RestAfterSendError(Tail(todo))
             ELSE Tail(todo), "pub")
  /\ UNCHANGED <<callers, workerAlive, lockVars, bridgeVars, procVars, inbound,
                 inboundRx, eventRx, delivered, storeVars, codec, display>>

(* ------------------------- consumer of WorkerEvents ------------------- *)
\* TinaWorker::take_event_receiver by the front end.
ConsumerTake ==
  /\ workerAlive /\ eventRx = "worker"
  /\ \A c \in Callers : callers[c].pc = "idle"
  /\ eventRx' = "consumer"
  /\ UNCHANGED <<callers, workerAlive, lockVars, bridgeVars, procVars, pipeVars,
                 events, produced, delivered, storeVars, codec, display>>

ConsumerRecv ==
  /\ eventRx = "consumer" /\ events # <<>>
  /\ delivered' = Append(delivered, Head(events))
  /\ events' = Tail(events)
  /\ UNCHANGED <<callers, workerAlive, lockVars, bridgeVars, procVars, pipeVars,
                 eventRx, produced, storeVars, codec, display>>

\* The front end drops the receiver: the channel closes, what it holds is gone.
ConsumerDrop ==
  /\ eventRx = "consumer"
  /\ eventRx' = "dropped"
  /\ events' = <<>>
  /\ UNCHANGED <<callers, workerAlive, lockVars, bridgeVars, procVars, pipeVars,
                 produced, delivered, storeVars, codec, display>>

(* ---------------------- JID display (jid_utils.rs) -------------------- *)
\* Strings are sequences of characters.
UserSuffix == <<"@", "s", ".", "w", "h", "a", "t", "s", "a", "p", "p", ".", "n", "e", "t">>
GroupSuffix == <<"@", "g", ".", "u", "s">>
LidSuffix == <<"@", "l", "i", "d">>
Digits == {"0", "1", "2", "3", "4", "5", "6", "7", "8", "9"}

\* str::contains, str::starts_with, and jid.split('@').next()
StrContains(s, sub) ==
  \E i \in 0..(Len(s) - Len(sub)) : SubSeq(s, i + 1, i + Len(sub)) = sub
StartsWith(s, sub) == Len(s) >= Len(sub) /\ SubSeq(s, 1, Len(sub)) = sub
BeforeAt(s) ==
  IF \E i \in DOMAIN s : s[i] = "@"
  THEN SubSeq(s, 1, (CHOOSE i \in DOMAIN s :
                       s[i] = "@" /\ \A m \in 1..(i - 1) : s[m] # "@") - 1)
  ELSE s
\* phone.chars().all(|c| c.is_ascii_digit())
AllDigitsAssumed(s) == TRUE
AllDigits(s) == \A i \in DOMAIN s : s[i] \in Digits

\* format_phone_number
FormatPhoneNumber(phone) ==
  LET rest == SubSeq(phone, 5, Len(phone))
      head == <<"+">> \o SubSeq(phone, 1, 2) \o <<" ">> \o SubSeq(phone, 3, 4) \o <<" ">>
  IN IF phone = <<>> THEN phone
     ELSE IF StartsWith(phone, <<"5", "5">>) /\ Len(phone) >= 12 /\ Len(rest) = 9
     THEN head \o SubSeq(rest, 1, 5) \o <<"-">> \o SubSeq(rest, 6, 9)
     ELSE IF StartsWith(phone, <<"5", "5">>) /\ Len(phone) >= 12 /\ Len(rest) = 8
     THEN head \o SubSeq(rest, 1, 4) \o <<"-">> \o SubSeq(rest, 5, 8)
     ELSE IF Len(phone) > 10 THEN <<"+">> \o phone
     ELSE phone

\* format_jid_for_display
FormatJidForDisplay(jid) ==
  IF StrContains(jid, UserSuffix) /\ AllDigits(BeforeAt(jid)) /\ BeforeAt(jid) # <<>>
  THEN FormatPhoneNumber(BeforeAt(jid))
  ELSE IF StrContains(jid, GroupSuffix) THEN jid
  ELSE IF StartsWith(jid, <<"2", ":">>)
          \/ (~StrContains(jid, <<"@">>) /\ StrContains(jid, <<":">>))
  THEN <<"(", "L", "I", "D", ")">>
  ELSE IF StrContains(jid, LidSuffix) THEN <<"(", "U", ")">>
  ELSE jid

\* Sample JIDs: what may stand before the first '@', and what may follow.
JidHeads ==
  { <<>>, <<"2", ":">>, <<"2", ":", "a", "b">>, <<"a", ":", "b">>, <<"a", "b">>, <<"1", "2", "a">>,
    <<"5", "5", "1", "1", "9", "8", "7", "6", "5", "4", "3", "2", "1">>, <<"5", "5", "1", "1", "3", "3", "3", "3", "4", "4", "4", "4">>, <<"5", "5", "1", "1", "9", "9", "9", "9", "9", "9", "9">>, <<"5", "5", "1", "1">>, <<"4", "9", "1", "5", "1", "1", "2", "3", "4", "5", "6", "7", "8">>, <<"5", "5", "1", "1", "9", "8", "7", "6", "5", "4", "3", "2", "1", "0">> }
JidTails ==
  { <<>>, UserSuffix, GroupSuffix, LidSuffix, UserSuffix \o LidSuffix }
JidInputs == {h \o t : h \in JidHeads, t \in JidTails}

\* format_jid_for_display(jid)
FormatJid ==
  /\ display.pc = "new"
  /\ display' = [display EXCEPT !.pc = "shown", !.shown = FormatJidForDisplay(display.jid)]
  /\ UNCHANGED <<callers, workerAlive, lockVars, bridgeVars, procVars, pipeVars,
                 eventVars, storeVars, codec>>

(* ------------------------- codec round trip --------------------------- *)
\* message.to_line()
CodecEncode ==
  /\ codec.pc = "new"
  /\ codec' = [codec EXCEPT !.pc = "line", !.line = ToLine(codec.msg)]
  /\ UNCHANGED <<callers, workerAlive, lockVars, bridgeVars, procVars, pipeVars,
                 eventVars, storeVars, display>>

\* IpcMessage::from_line(line)
CodecDecode ==
  /\ codec.pc = "line"
  /\ codec' = [codec EXCEPT !.pc = "back", !.back = FromLine(codec.line)]
  /\ UNCHANGED <<callers, workerAlive, lockVars, bridgeVars, procVars, pipeVars,
                 eventVars, storeVars, display>>

(* ----------------------------- specification -------------------------- *)
CallerStep(c) ==
  \/ \E op \in WriteOps \cup ReadOps : Call(c, op)
  \/ \E a \in AccountIds : CallStartAccount(c, a)
  \/ Grant(c)
  \/ StartNoop(c) \/ StartDepFail(c) \/ StartSpawnFail(c) \/ StartSpawn(c)
  \/ StopNoop(c) \/ StopTake(c) \/ StopKill(c)
  \/ IsRunningTrue(c) \/ IsRunningFalse(c)
  \/ SendBody(c) \/ StartAccountAuth(c) \/ StartAccountSend(c)

WriterStep(p) == WriterRecv(p) \/ WriterClose(p) \/ WriterWrite(p) \/ WriterFail(p)
ReaderStep(p) == ReaderRead(p) \/ ReaderEof(p) \/ ReaderSend(p)
EngineStep(p) ==
  EngineRead(p) \/ EngineExit(p) \/ \E l \in EngineLines : EngineEmit(p, l)
PipelineStep == PipeRecv \/ PipeClose \/ PipeDb \/ PipePublish
ConsumerStep == ConsumerTake \/ ConsumerRecv \/ ConsumerDrop

Next ==
  \/ \E c \in Callers : CallerStep(c)
  \/ WorkerDrop
  \/ CodecEncode \/ CodecDecode
  \/ \E p \in PIDs : WriterStep(p)
  \/ \E p \in PIDs : ReaderStep(p) \/ ReaderFail(p)
  \/ \E p \in PIDs : EngineStep(p)
  \/ \E p \in PIDs : \E l \in BadLines \cup StoreLines : EngineEmit(p, l)
  \/ PipelineStep
  \/ ConsumerStep
  \/ \E e \in FrontCalls : StoreCall(e)

Spec == Init /\ [][Next]_vars

\* The command side alone: callers, the lock, the bridge, the writer tasks
\* and engines that read their stdin or exit. No stdout line is written, so
\* the reader and pipeline tasks and the consumer have nothing to do.
NextBridge ==
  \/ \E c \in Callers : CallerStep(c)
  \/ WorkerDrop
  \/ \E p \in PIDs : WriterStep(p)
  \/ \E p \in PIDs : EngineRead(p) \/ EngineExit(p)

SpecBridge == Init /\ [][NextBridge]_vars

\* The event side alone: the control caller starts, stops and drops the
\* worker, engines write stdout lines or exit, and the reader tasks, the
\* pipeline task and the consumer run. No command is sent.
NextPipeline ==
  \/ \E c \in CtlCallers :
       \/ Call(c, "start") \/ Call(c, "stop") \/ Grant(c)
       \/ StartNoop(c) \/ StartDepFail(c) \/ StartSpawnFail(c) \/ StartSpawn(c)
       \/ StopNoop(c) \/ StopTake(c) \/ StopKill(c)
  \/ WorkerDrop
  \/ \E p \in PIDs : ReaderStep(p)
  \/ \E p \in PIDs : EngineExit(p) \/ \E l \in EngineLines : EngineEmit(p, l)
  \/ PipelineStep
  \/ ConsumerStep

SpecPipeline == Init /\ [][NextPipeline]_vars

\* The event side with lines that are no Event envelope among the
\* engine's output.
NextDecode ==
  \/ \E c \in CtlCallers :
       \/ Call(c, "start") \/ Call(c, "stop") \/ Grant(c)
       \/ StartNoop(c) \/ StartDepFail(c) \/ StartSpawnFail(c) \/ StartSpawn(c)
       \/ StopNoop(c) \/ StopTake(c) \/ StopKill(c)
  \/ WorkerDrop
  \/ \E p \in PIDs : ReaderStep(p) \/ ReaderFail(p)
  \/ \E p \in PIDs : EngineExit(p) \/ \E l \in DecodeLines : EngineEmit(p, l)
  \/ PipelineStep
  \/ ConsumerStep

SpecDecode == Init /\ [][NextDecode]_vars

\* The store side: the worker has been started and its events are being
\* received; the engine writes bulk events, the reader and pipeline tasks
\* bring them to the store, and the front end calls the repository.
InitStore ==
  /\ callers = [c \in Callers |->
                  [pc |-> "idle", op |-> IF c \in CtlCallers THEN "start" ELSE "none",
                   ops |-> IF c \in CtlCallers THEN 1 ELSE 0, lines |-> 0,
                   res |-> IF c \in CtlCallers THEN "Ok" ELSE "none",
                   acct |-> "", auth |-> Null,
                   did |-> IF c \in CtlCallers THEN "spawned" ELSE "none"]]
  /\ waitq = <<>> /\ writer = Null /\ readers = {}
  /\ workerAlive = TRUE
  /\ process = 1 /\ local = 0 /\ nspawned = 1
  /\ manifest = TRUE /\ nodeModules = TRUE
  /\ pstate = [p \in PIDs |-> IF p = 1 THEN "running" ELSE "unborn"]
  /\ forcedBy = [p \in PIDs |-> "none"]
  /\ stdinQ = [p \in PIDs |-> <<>>]
  /\ enq = [p \in PIDs |-> <<>>]
  /\ wpc = [p \in PIDs |-> "recv"]
  /\ wline = [p \in PIDs |-> [line |-> NoLine, done |-> 0]]
  /\ written = [p \in PIDs |-> <<>>]
  /\ nread = [p \in PIDs |-> 0]
  /\ outPipe = [p \in PIDs |-> <<>>]
  /\ emitted = [p \in PIDs |-> 0]
  /\ rpc = [p \in PIDs |-> "read"]
  /\ rline = [p \in PIDs |-> NoOut]
  /\ inbound = <<>> /\ inboundRx = "pipeline"
  /\ plpc = "recv" /\ plcur = NoOut /\ todo = <<>> /\ trace = <<>>
  /\ events = <<>> /\ eventRx = "consumer" /\ produced = <<>> /\ delivered = <<>>
  /\ accounts = {"acme"}
  /\ authState = [a \in AccountIds |-> IF a \in accounts THEN "auth0" ELSE Null]
  /\ acctCols = [a \in AccountIds |-> IF a \in accounts THEN FirstAccount ELSE NoAccount]
  /\ rows = {} /\ lastCall = NoCall /\ storeOps = 0
  /\ codec = CodecIdle /\ display = DisplayIdle

NextStore ==
  \/ \E l \in StoreLines : EngineEmit(1, l)
  \/ ReaderRead(1) \/ ReaderSend(1)
  \/ PipeRecv \/ PipeDb \/ PipePublish
  \/ ConsumerRecv
  \/ \E e \in FrontCalls : StoreCall(e)

SpecStore == InitStore /\ [][NextStore]_vars

\* Bulk events of many items, from the state in which the worker has been
\* started.
NextSync ==
  \/ \E l \in SyncLines : EngineEmit(1, l)
  \/ ReaderRead(1) \/ ReaderSend(1)
  \/ PipeRecv \/ PipeDb \/ PipePublish
  \/ ConsumerRecv

SpecSync == InitStore /\ [][NextSync]_vars

\* MessagesUpsert batches of many items.
NextMessages ==
  \/ \E l \in MessageLines : EngineEmit(1, l)
  \/ ReaderRead(1) \/ ReaderSend(1)
  \/ PipeRecv \/ PipeDb \/ PipePublish
  \/ ConsumerRecv

SpecMessages == InitStore /\ [][NextMessages]_vars

\* Bulk events whose store calls may fail in the database.
NextFault ==
  \/ \E l \in FaultLines : EngineEmit(1, l)
  \/ ReaderRead(1) \/ ReaderSend(1)
  \/ PipeRecv \/ PipeDb \/ PipeDbErr \/ PipePublish
  \/ ConsumerRecv

SpecFault == InitStore /\ [][NextFault]_vars

\* The JID display alone: a JID is formatted for the UI.
InitJid ==
  /\ InitSystem /\ codec = CodecIdle
  /\ display \in {[pc |-> "new", jid |-> j, shown |-> <<>>] : j \in JidInputs}

NextJid == FormatJid

SpecJid == InitJid /\ [][NextJid]_vars

\* The chat list: the front end inserts messages and lists the chats.
NextChats ==
  \/ \E e \in ChatCalls : ChatCall(e)
  \/ \E a \in AccountIds : GetChats(a)

SpecChats == InitStore /\ [][NextChats]_vars

\* The events that are no bulk upserts.
NextPlain ==
  \/ \E l \in PlainLines : EngineEmit(1, l)
  \/ ReaderRead(1) \/ ReaderSend(1)
  \/ PipeRecv \/ PipeDb \/ PipePublish
  \/ ConsumerRecv

SpecPlain == InitStore /\ [][NextPlain]_vars

\* Auth-state updates from the engine, and start_account calls that replay
\* the stored auth-state.
NextAuth ==
  \/ \E l \in AuthLines : EngineEmit(1, l)
  \/ ReaderRead(1) \/ ReaderSend(1)
  \/ PipeRecv \/ PipeDb \/ PipePublish
  \/ ConsumerRecv
  \/ \E c \in SendCallers :
       \/ \E a \in AccountIds : CallStartAccount(c, a)
       \/ Grant(c) \/ StartAccountAuth(c) \/ StartAccountSend(c)
  \/ WriterRecv(1) \/ WriterWrite(1) \/ EngineRead(1)

SpecAuth == InitStore /\ [][NextAuth]_vars

\* The reader task, the pipeline task and the consumer are tasks of the
\* runtime: each is run again whenever it can go on.
FairSpecFault ==
  /\ SpecFault
  /\ WF_vars(ReaderRead(1) \/ ReaderSend(1))
  /\ WF_vars(PipeRecv \/ PipeDb \/ PipeDbErr \/ PipePublish)
  /\ WF_vars(ConsumerRecv)

\* The codec alone: an envelope is written with to_line and read back with
\* from_line.
CodecIds == {"18a2f", "0"}
OptStrings == {<<>>, <<"x">>}
Payloads(t) ==
  CASE t \in {"StartAccount", "StopAccount", "GetQrCode", "GetContacts",
              "GetGroups", "LoggedOut"} -> {[account_id |-> "acme"]}
    [] t = "Ready" -> {[account_id |-> a] : a \in {"", "acme"}}
    [] t = "SendMessage" -> {[account_id |-> "acme", to |-> "j1", content |-> "hi"]}
    [] t = "GetMessages" ->
         {[account_id |-> "acme", chat_jid |-> c, limit |-> n] :
            c \in OptStrings, n \in {-1, 50}}
    [] t \in {"SetAuthState", "AuthStateUpdated"} ->
         {[account_id |-> "acme", auth_state |-> "auth0"]}
    [] t = "QrCode" -> {[account_id |-> "acme", qr |-> "qr"]}
    [] t = "Connected" ->
         {[account_id |-> "acme", phone_number |-> o] : o \in OptStrings}
    [] t = "Disconnected" -> {[account_id |-> "acme", reason |-> "gone"]}
    [] t \in {"ContactsUpsert", "ContactsUpdate"} ->
         {[account_id |-> "acme", contacts |-> cs] :
            cs \in {<<>>, <<ContactOf("j1", <<>>)>>,
                    <<ContactOf("j1", <<"x">>), ContactOf("j2", <<>>)>>}}
    [] t \in {"GroupsUpsert", "GroupsUpdate"} ->
         {[account_id |-> "acme", groups |-> gs] :
            gs \in {<<>>, <<GroupOf("g1", <<>>, <<>>)>>,
                    <<GroupOf("g1", <<"x">>, <<ParticipantOf("p1")>>)>>}}
    [] t = "MessagesUpsert" ->
         {[account_id |-> "acme", messages |-> ms] :
            ms \in {<<>>, <<MessageOf("m1", <<>>), MessageOf("m2", <<"x">>)>>}}
    [] t = "HistorySyncComplete" ->
         {[account_id |-> "acme", messages_count |-> n] : n \in {0, 7}}
    [] t = "Error" -> {[account_id |-> o, error |-> "boom"] : o \in OptStrings}
    [] t = "CommandResult" ->
         {[command_id |-> "18a2f", success |-> b, data |-> d, error |-> o] :
            b \in BOOLEAN, o \in OptStrings,
            d \in {<<>>, <<JNull>>, <<<<"str", "ok">>>>, <<<<"bool", TRUE>>>>}}
    [] OTHER -> {<<>>}
CodecInputs ==
  UNION {{Envelope(id, IF t \in CommandTags THEN "Command" ELSE "Event", t, pl) :
            id \in CodecIds, pl \in Payloads(t)} : t \in CommandTags \cup EventTags}

InitCodec ==
  /\ InitSystem
  /\ codec \in {[pc |-> "new", msg |-> m, line |-> <<>>, back |-> NoEnvelope] :
                  m \in CodecInputs}
  /\ display = DisplayIdle

NextCodec == CodecEncode \/ CodecDecode

SpecCodec == InitCodec /\ [][NextCodec]_vars

(* ------------------------------ fairness ------------------------------ *)
\* The tokio runtime keeps polling every task that can make progress: a
\* caller past its call, and the writer tasks. Nothing obliges a caller to
\* call, or the engine to read its stdin or to exit.
CallerProgress(c) ==
  \/ Grant(c)
  \/ StartNoop(c) \/ StartDepFail(c) \/ StartSpawnFail(c) \/ StartSpawn(c)
  \/ StopNoop(c) \/ StopTake(c) \/ StopKill(c)
  \/ IsRunningTrue(c) \/ IsRunningFalse(c)
  \/ SendBody(c) \/ StartAccountAuth(c) \/ StartAccountSend(c)

FairSpecBridge ==
  /\ SpecBridge
  /\ \A c \in Callers : WF_vars(CallerProgress(c))
  /\ \A p \in PIDs : WF_vars(WriterStep(p))

\* On the event side the runtime keeps polling the reader tasks and the
\* pipeline task, and the front end takes the event receiver and keeps
\* receiving from it. Nothing obliges an engine to write or to exit.
FairSpecPipeline ==
  /\ SpecPipeline
  /\ \A c \in CtlCallers : WF_vars(CallerProgress(c))
  /\ \A p \in PIDs : WF_vars(ReaderStep(p))
  /\ WF_vars(PipelineStep)
  /\ WF_vars(ConsumerTake) /\ WF_vars(ConsumerRecv)

(* ------------------------------- claims ------------------------------- *)
HasShutdown(p) == \E i \in DOMAIN enq[p] : enq[p][i].cmd = "Shutdown"

\* C1: when stop() runs with an engine process in the slot, a Shutdown line
\* has been queued on that process's stdin queue by the time stop() sleeps,
\* and so before the process is force-killed.
C1_ShutdownBeforeKill ==
  \A p \in PIDs : (local = p \/ forcedBy[p] = "stop") => HasShutdown(p)

\* C2: the step by which stop() returns leaves the process it took dead,
\* killed by force, and the bridge without a process, so that is_running()
\* is false and send_command fails with ProcessNotRunning.
C2_StopKills ==
  [][\A c \in Callers :
       (callers[c].op = "stop" /\ callers[c].pc = "sleep" /\ callers'[c].pc = "idle")
       => /\ local \in PIDs
          /\ pstate'[local] = "dead"
          /\ forcedBy'[local] # "none"
          /\ process' = 0 /\ local' = 0
          /\ callers'[c].res = "Ok"]_vars
C2_Witness == \E c \in Callers : callers[c].did = "killed" /\ callers[c].pc = "idle"

\* C3: a caller of TinaWorker::stop() that waits for the lock always gets
\* to return, whatever the other callers and the engine do.
C3_StopReturns ==
  \A c \in CtlCallers :
    (callers[c].op = "stop" /\ callers[c].pc = "wait") ~> (callers[c].pc = "idle")

\* C4: start() with a process in the slot returns Ok and changes nothing of
\* the bridge or of any process, and a process is only ever spawned into an
\* empty slot.
C4_StartIdempotent ==
  [][/\ \A c \in Callers :
          (Holds(c, "start") /\ process # 0 /\ callers'[c] # callers[c])
          => /\ callers'[c].pc = "idle" /\ callers'[c].res = "Ok"
             /\ UNCHANGED <<bridgeVars, procVars>>
     /\ nspawned' # nspawned => process = 0 /\ process' = nspawned']_vars
C4_Witness == \E c \in Callers : callers[c].did = "start_noop" /\ nspawned = 1

\* C5: stop() with an empty slot returns Ok at once: no command is queued,
\* nothing is killed, and the bridge and the processes are left as they were.
C5_StopNoop ==
  [][\A c \in Callers :
       (Holds(c, "stop") /\ process = 0 /\ callers'[c] # callers[c])
       => /\ callers'[c].pc = "idle" /\ callers'[c].res = "Ok"
          /\ UNCHANGED <<bridgeVars, procVars>>]_vars
C5_Witness ==
  \E c \in Callers : callers[c].did = "stop_noop" /\ nspawned = 1 /\ process = 0

\* C6: a send_command issued while the slot is empty returns
\* ProcessNotRunning and queues no line.
C6_SendNotRunning ==
  [][\A c \in SendCallers :
       (callers[c].pc \in {"held", "held2"} /\ process = 0
        /\ callers'[c] # callers[c])
       => /\ callers'[c].pc = "idle"
          /\ callers'[c].res = "ProcessNotRunning"
          /\ callers'[c].lines = callers[c].lines
          /\ UNCHANGED <<stdinQ, enq>>]_vars
C6_Witness ==
  \E c \in SendCallers :
    callers[c].res = "ProcessNotRunning" /\ callers[c].pc = "idle" /\ nspawned > 0

\* C7: what has been written to an engine's stdin is, part by part, the
\* lines its queue accepted, in the order it accepted them; and the lines of
\* one caller appear in the order that caller sent them.
C7_FifoWholeLines ==
  \A p \in PIDs :
    /\ Len(written[p]) <= ChunksPerLine * Len(enq[p])
    /\ \A i \in DOMAIN written[p] :
         written[p][i] = <<enq[p][((i - 1) \div ChunksPerLine) + 1],
                           ((i - 1) % ChunksPerLine) + 1>>
    /\ \A i, j \in DOMAIN written[p] :
         (i < j /\ written[p][i][1].c = written[p][j][1].c)
         => written[p][i][1].n <= written[p][j][1].n
C7_Witness ==
  \E p \in PIDs :
    /\ Len(written[p]) >= 3 * ChunksPerLine
    /\ \E i, j \in DOMAIN written[p] :
         /\ written[p][i][1].c = written[p][j][1].c
         /\ written[p][i][1].n < written[p][j][1].n
    /\ \E i, j \in DOMAIN written[p] : written[p][i][1].c # written[p][j][1].c

SameLine(e, f) == e.p = f.p /\ e.k = f.k

\* C8: the pipeline handles the lines of an engine in the order the engine
\* wrote them, and a line's handling (its store writes and publishes, up to
\* its end) is complete before the handling of the next line begins.
C8_InOrder ==
  /\ \A i, j \in DOMAIN trace :
       (i < j /\ trace[i].p = trace[j].p) => trace[i].k <= trace[j].k
  /\ \A i, j \in DOMAIN trace :
       (i < j /\ trace[i].what = "begin" /\ trace[j].what \in {"begin", "discard"})
       => \E m \in DOMAIN trace :
            i < m /\ m < j /\ trace[m].what = "end" /\ SameLine(trace[m], trace[i])
  /\ \A i, j \in DOMAIN trace :
       (i < j /\ trace[i].what = "end" /\ SameLine(trace[i], trace[j])) => FALSE
C8_Witness ==
  \E i, j \in DOMAIN trace :
    /\ i < j /\ trace[i].p = trace[j].p /\ trace[i].k = 1 /\ trace[j].k = 2
    /\ trace[i].what = "end" /\ trace[j].what = "end"
    /\ \E m \in DOMAIN trace : trace[m].what = "db" /\ SameLine(trace[m], trace[i])
    /\ \E m \in DOMAIN trace : trace[m].what = "pub" /\ SameLine(trace[m], trace[j])

Ks(q) == [i \in 1..Len(q) |-> q[i].k]
\* the lines of engine p the pipeline task has taken, in the order it took them
Taken(p) == Ks(SelectSeq(trace, LAMBDA e : e.p = p /\ e.what \in {"begin", "discard"}))
InChannel(p) == Ks(SelectSeq(inbound, LAMBDA l : l.p = p))
InHand(p) == IF rpc[p] = "send" THEN <<rline[p].k>> ELSE <<>>

\* Every line an engine wrote is, in order, taken by the pipeline task, in
\* the inbound channel, held by the reader task that waits to send it, or
\* still in the stdout pipe; and while the event receiver exists, every
\* event the handler sent has been received or is in the event channel.
Conserved ==
  /\ \A p \in PIDs :
       Taken(p) \o InChannel(p) \o InHand(p) \o Ks(outPipe[p])
         = [i \in 1..emitted[p] |-> i]
  /\ eventRx # "dropped" => produced = delivered \o events
  /\ Len(inbound) <= InboundCap /\ Len(events) <= EventCap

Done(p, k) ==
  \E i \in DOMAIN trace :
    trace[i].p = p /\ trace[i].k = k /\ trace[i].what \in {"end", "discard"}
\* Nothing is in flight: every line written has been handled to its end (or
\* discarded as undecodable) and every event sent has been received.
Quiescent ==
  /\ \A p \in PIDs : \A k \in 1..emitted[p] : Done(p, k)
  /\ eventRx # "dropped" => (eventRx = "consumer" /\ produced = delivered)

\* C9: no line and no event is lost to a full channel: a producer that finds
\* its channel full keeps its item until there is room, so lines and events
\* are conserved at every moment, and once the engines stop writing every
\* line written has been handled and every event sent has been received by
\* the consumer that holds the receiver.
C9_NoLoss == []Conserved /\ <>[]Quiescent
C9_Witness ==
  /\ eventRx = "consumer" /\ delivered # <<>>
  /\ Len(events) = EventCap /\ plpc = "handle" /\ Head(todo).t = "pub"
  /\ \E p \in PIDs : emitted[p] = 2

\* C10: an engine process whose handle is gone is dead: when the manager is
\* dropped, or a handle is dropped in any other way, with the process still
\* running, the process is terminated by force.
C10_NoOrphan ==
  /\ \A p \in PIDs : (Spawned(p) /\ ~HandleLive(p)) => pstate[p] = "dead"
  /\ ~workerAlive => \A p \in PIDs : pstate[p] # "running"
C10_Witness == ~workerAlive /\ \E p \in PIDs : forcedBy[p] = "drop"

\* C11: with no package.json, start() on an empty slot returns the dependency
\* error, spawns nothing and leaves the bridge and every process as they
\* were; no process is ever spawned, the slot stays empty, and a send_command
\* keeps failing with ProcessNotRunning.
C11_NoManifest ==
  /\ [](~manifest => (process = 0 /\ nspawned = 0))
  /\ [][/\ \A c \in Callers :
            (Holds(c, "start") /\ ~manifest /\ callers'[c] # callers[c])
            => /\ callers'[c].pc = "idle"
               /\ callers'[c].res = "BunInstallFailed"
               /\ UNCHANGED <<bridgeVars, procVars>>
        /\ \A c \in SendCallers :
            (callers[c].pc \in {"held", "held2"} /\ ~manifest
             /\ callers'[c] # callers[c])
            => callers'[c].res = "ProcessNotRunning"]_vars
C11_Witness ==
  /\ ~manifest
  /\ \E c \in CtlCallers : callers[c].did = "dep_fail" /\ callers[c].pc = "idle"
  /\ \E c \in SendCallers :
       callers[c].res = "ProcessNotRunning" /\ callers[c].pc = "idle"

\* C12: is_running() answers true only with a running process in the slot,
\* and then changes nothing; whenever it answers false the slot is empty
\* afterwards; with an exited process in the slot it answers false; and a
\* process is only ever spawned into an empty slot, under a fresh pid.
C12_IsRunning ==
  [][/\ \A c \in Callers :
          (Holds(c, "is_running") /\ callers'[c] # callers[c])
          => /\ callers'[c].pc = "idle"
             /\ callers'[c].res \in {"true", "false"}
             /\ callers'[c].res = "true"
                  => /\ process # 0 /\ pstate[process] = "running"
                     /\ UNCHANGED <<bridgeVars, procVars>>
             /\ callers'[c].res = "false" => process' = 0
             /\ (process # 0 /\ pstate[process] = "dead")
                  => callers'[c].res = "false"
     /\ nspawned' # nspawned
          => /\ process = 0 /\ process' = nspawned'
             /\ pstate[process'] = "unborn" /\ pstate'[process'] = "running"]_vars
C12_Witness ==
  /\ forcedBy[1] = "poll" /\ process = 2 /\ pstate[2] = "running"
  /\ \E c \in CtlCallers : callers[c].did = "spawned"

\* C13: a send_command issued with a handle in the slot returns
\* ChannelClosed, queueing nothing, exactly when the writer task of that
\* process has ended; otherwise the line is appended to the process's stdin
\* queue and the send is Ok. It never returns ProcessNotRunning, whether the
\* process is running or has exited.
C13_SendWithHandle ==
  [][\A c \in SendCallers :
       (callers[c].pc \in {"held", "held2"} /\ process # 0
        /\ callers'[c] # callers[c])
       => IF wpc[process] = "done"
          THEN /\ callers'[c].pc = "idle"
               /\ callers'[c].res = "ChannelClosed"
               /\ UNCHANGED <<stdinQ, enq>>
          ELSE /\ Len(enq'[process]) = Len(enq[process]) + 1
               /\ enq'[process][Len(enq'[process])].c = c
               /\ stdinQ'[process] = Append(stdinQ[process],
                                            enq'[process][Len(enq'[process])])
               /\ callers'[c].lines = callers[c].lines + 1
               /\ callers'[c].pc = "idle" => callers'[c].res = "Ok"
               /\ callers'[c].pc # "idle" => callers'[c].res = "none"]_vars
C13_Witness ==
  \E c \in SendCallers :
    /\ callers[c].res = "ChannelClosed" /\ callers[c].pc = "idle"
    /\ process # 0 /\ pstate[process] = "dead" /\ wpc[process] = "done"

\* what a line holds that is no Event envelope
NoEventKinds == {"Malformed", "Empty", "InvalidUtf8"} \cup CommandTags

\* C14: the pipeline task drops a line that is no Event envelope with no
\* store write and no publish and stays at its recv; and such a line never
\* stops the stream: no reader task has ended, with the pipeline still
\* there to take lines, while an Event line of its engine is left unread.
C14_BadLineSkipped ==
  /\ [](\A p \in PIDs :
          (rpc[p] = "done" /\ inboundRx = "pipeline" /\ plpc # "done")
          => \A i \in DOMAIN outPipe[p] : outPipe[p][i].kind \notin EventTags)
  /\ [][(inbound # <<>> /\ inbound' = Tail(inbound)
         /\ Head(inbound).kind \in NoEventKinds)
        => /\ UNCHANGED <<storeVars, eventVars, plpc, plcur, todo>>
           /\ trace' = Append(trace, Entry("discard", Head(inbound)))]_vars

\* C15: an envelope read back with from_line from the line to_line wrote
\* has the id, the kind (Command or Event), the tag and the payload of the
\* envelope that was written.
C15_RoundTrip ==
  codec.pc = "back"
  => /\ codec.back.id = codec.msg.id
     /\ codec.back.kind = codec.msg.kind
     /\ codec.back.tag = codec.msg.tag
     /\ IF codec.back.kind = codec.msg.kind /\ codec.back.tag = codec.msg.tag
        THEN codec.back.payload = codec.msg.payload ELSE FALSE

\* C16: the store never holds two message rows with the same account id and
\* message id; a message row, once stored, stays as it is until its account
\* is deleted; and an insert that meets a stored row with its account id and
\* message id returns Ok and changes no row.
C16_InsertOrIgnore ==
  /\ [](\A r1, r2 \in rows :
          (r1.table = "messages" /\ r2.table = "messages"
           /\ r1.acct = r2.acct /\ r1.key = r2.key) => r1 = r2)
  /\ [][/\ \A r \in rows :
             r.table = "messages"
             => \/ r \in rows'
                \/ lastCall'.op = "delete_account" /\ lastCall'.acct = r.acct
        /\ (lastCall'.n # lastCall.n /\ lastCall'.op = "insert_message"
            /\ RowsAt(rows, "messages", lastCall'.acct, lastCall'.key) # {})
           => rows' = rows /\ lastCall'.res = "Ok"]_vars
C16_Witness ==
  /\ lastCall.op = "insert_message" /\ lastCall.res = "Ok"
  /\ \E r \in rows :
       /\ r.table = "messages" /\ r.acct = lastCall.acct /\ r.key = lastCall.key
       /\ r.cols.content # lastCall.cols.content
  /\ \E i, j \in DOMAIN trace :
       i < j /\ trace[i].what = "db" /\ trace[j].what = "db"
       /\ SameLine(trace[i], trace[j])

ContactFields == {"lid", "phone_number", "name", "notify_name", "verified_name",
                  "img_url", "status"}

\* C17: after an upsert_contact that returned Ok there is exactly one
\* contact row with its account id and JID; each of the seven optional
\* columns of that row holds the incoming value if that is non-null, else
\* the value stored before (null if there was no row); and every other row
\* is as it was.
C17_CoalesceMerge ==
  [][(lastCall'.n # lastCall.n /\ lastCall'.op = "upsert_contact"
      /\ lastCall'.res = "Ok")
     => LET old == RowsAt(rows, "contacts", lastCall'.acct, lastCall'.key)
            new == RowsAt(rows', "contacts", lastCall'.acct, lastCall'.key)
        IN /\ Cardinality(new) = 1
           /\ rows' \ new = rows \ old
           /\ \A r \in new : \A f \in ContactFields :
                IF lastCall'.cols[f] # <<>> THEN r.cols[f] = lastCall'.cols[f]
                ELSE IF old = {} THEN r.cols[f] = <<>>
                ELSE \A o \in old : r.cols[f] = o.cols[f]]_vars
C17_Witness ==
  /\ lastCall.op = "upsert_contact" /\ lastCall.res = "Ok" /\ lastCall.had > 0
  /\ \A f \in ContactFields : lastCall.cols[f] = <<>>
  /\ \E r \in rows :
       /\ r.table = "contacts" /\ r.acct = lastCall.acct /\ r.key = lastCall.key
       /\ \E f, g \in ContactFields : r.cols[f] = <<"x">> /\ r.cols[g] = <<"z">>

\* C18: when handle_ipc_event stores a group item of a GroupsUpsert or
\* GroupsUpdate event whose participant list is empty, the participant list
\* a row already stored for that group holds stays as it was.
C18_ParticipantsKept ==
  [][(plpc = "handle" /\ plcur.kind \in {"GroupsUpsert", "GroupsUpdate"}
      /\ lastCall'.n # lastCall.n /\ storeOps' = storeOps)
     => \A i \in DOMAIN plcur.items :
          (plcur.items[i].jid = lastCall'.key
           /\ plcur.items[i].participants = <<>>)
          => \A r \in RowsAt(rows, "groups", lastCall'.acct, lastCall'.key) :
               r.cols.participants_json # <<>>
               => \E q \in RowsAt(rows', "groups", lastCall'.acct, lastCall'.key) :
                 q.cols.participants_json = r.cols.participants_json]_vars

\* C19: delete_account returns Ok and leaves no account row and no contact,
\* group or message row with its account id, while the other accounts and
\* their rows are as they were.
C19_DeleteCascades ==
  [][(lastCall'.n # lastCall.n /\ lastCall'.op = "delete_account")
     => /\ lastCall'.res = "Ok"
        /\ accounts' = accounts \ {lastCall'.acct}
        /\ rows' = rows \ RowsOf(rows, lastCall'.acct)
        /\ RowsOf(rows', lastCall'.acct) = {}
        /\ \A a \in AccountIds \ {lastCall'.acct} : authState'[a] = authState[a]]_vars
C19_Witness ==
  /\ lastCall.op = "delete_account" /\ lastCall.res = "Ok" /\ lastCall.had > 0
  /\ lastCall.acct \notin accounts
  /\ \E r \in rows : r.acct # lastCall.acct

\* C20: every contact, group and message row carries the id of an account
\* row; and an upsert or insert under an account id that has no account row
\* returns an error and changes no row.
C20_RowsHaveAccount ==
  /\ [](\A r \in rows : r.acct \in accounts)
  /\ [][(lastCall'.n # lastCall.n /\ lastCall'.op \in RowOps
         /\ lastCall'.acct \notin accounts)
        => lastCall'.res = "Err" /\ rows' = rows]_vars
C20_Witness ==
  /\ lastCall.op \in RowOps /\ lastCall.res = "Err"
  /\ lastCall.acct \notin accounts /\ rows # {}
  /\ \E i \in DOMAIN trace : trace[i].what = "dberr"

\* C21: in every step, the message rows of an account are all still stored,
\* each as it was, after the step, unless the step is a delete_account of
\* that account, after which it has none.
C21_AppendOnly ==
  [][\A a \in AccountIds :
       LET old == {r \in rows : r.table = "messages" /\ r.acct = a}
           new == {r \in rows' : r.table = "messages" /\ r.acct = a}
       IN IF lastCall'.n # lastCall.n /\ lastCall'.op = "delete_account"
             /\ lastCall'.acct = a
          THEN new = {}
          ELSE old \subseteq new]_vars
C21_Witness ==
  /\ lastCall.op = "create_account" /\ lastCall.acct \in accounts
  /\ \E r \in rows : r.table = "messages" /\ r.acct = lastCall.acct
                      /\ r.cols.content = <<"x">>
  /\ Cardinality({i \in DOMAIN trace : trace[i].what = "db"}) >= 2

\* C22: create_account on an id that has an account row returns Ok, leaves
\* the set of account ids as it was, sets the row's name to the given name
\* and its update time to the time of the call, and leaves its auth-state,
\* its creation time, every contact, group and message row and every other
\* account as they were.
C22_CreateUpsert ==
  [][(lastCall'.n # lastCall.n /\ lastCall'.op = "create_account"
      /\ lastCall'.acct \in accounts)
     => /\ lastCall'.res = "Ok"
        /\ accounts' = accounts
        /\ acctCols'[lastCall'.acct].name = lastCall'.cols.name
        /\ acctCols'[lastCall'.acct].updated_at = Now
        /\ acctCols'[lastCall'.acct].created_at = acctCols[lastCall'.acct].created_at
        /\ authState' = authState
        /\ rows' = rows
        /\ \A a \in AccountIds \ {lastCall'.acct} : acctCols'[a] = acctCols[a]]_vars
C22_Witness ==
  /\ lastCall.op = "create_account" /\ lastCall.res = "Ok" /\ lastCall.had > 0
  /\ lastCall.acct \in accounts
  /\ authState[lastCall.acct] = "auth0"
  /\ acctCols[lastCall.acct].name = <<"Bea">>
  /\ acctCols[lastCall.acct].created_at = 0
  /\ acctCols[lastCall.acct].updated_at = lastCall.n
  /\ lastCall.n > 1

\* The SyncProgress events of kind `sync` published between the SyncStarted
\* of that kind before position j and position j.
StartOf(j, sync) ==
  LET is == {i \in 1..j : produced[i].t = "SyncStarted" /\ produced[i].sync = sync}
  IN IF is = {} THEN 0 ELSE CHOOSE i \in is : \A m \in is : m <= i
ProgressOf(j, sync) ==
  {i \in StartOf(j, sync)..j :
     i > 0 /\ produced[i].t = "SyncProgress" /\ produced[i].sync = sync}

\* C23: when SyncCompleted(Contacts, n) with n > 10 is published, exactly
\* floor(n / 50) SyncProgress(Contacts) events have been published since the
\* SyncStarted(Contacts) of the batch, each with a larger `current` than the
\* one before.
C23_ProgressCount ==
  \A j \in DOMAIN produced :
    (produced[j].t = "SyncCompleted" /\ produced[j].sync = "Contacts"
     /\ produced[j].n > 10)
    => /\ Cardinality(ProgressOf(j, "Contacts")) = produced[j].n \div 50
       /\ \A i1, i2 \in ProgressOf(j, "Contacts") :
            i1 < i2 => produced[i1].n < produced[i2].n

\* C24: the events of a ContactsUpsert batch are published in the order
\* SyncStarted(Contacts), SyncProgress(Contacts) events if any,
\* SyncCompleted(Contacts, n), ContactsSynced(n), with n the batch length;
\* SyncStarted is the first thing the handler does; every item of the batch
\* has its contact row when SyncCompleted is published; and a batch of at
\* most 10 items publishes no SyncProgress.
C24_SyncOrder ==
  /\ [](\A j \in DOMAIN produced :
          /\ (produced[j].t = "SyncCompleted" /\ produced[j].sync = "Contacts")
             => /\ StartOf(j, "Contacts") > 0
                /\ produced[StartOf(j, "Contacts")].acct = produced[j].acct
                /\ \A m \in (StartOf(j, "Contacts") + 1)..(j - 1) :
                     m \in ProgressOf(j, "Contacts")
                /\ produced[j].n <= 10 => ProgressOf(j, "Contacts") = {}
                /\ j < Len(produced)
                   => /\ produced[j + 1].t = "ContactsSynced"
                      /\ produced[j + 1].n = produced[j].n
          /\ produced[j].t = "ContactsSynced"
             => /\ j > 1
                /\ produced[j - 1].t = "SyncCompleted"
                /\ produced[j - 1].sync = "Contacts"
                /\ produced[j - 1].n = produced[j].n
                /\ produced[j - 1].acct = produced[j].acct)
  /\ [][(plpc = "handle" /\ plcur.kind = "ContactsUpsert"
         /\ Len(produced') = Len(produced) + 1)
        => LET e == produced'[Len(produced')] IN
             /\ e.t = "SyncStarted" <=> trace[Len(trace)].what = "begin"
             /\ e.t \in {"SyncCompleted", "ContactsSynced"}
                => /\ e.n = Len(plcur.items) /\ e.acct = plcur.acct
                   /\ \A i \in DOMAIN plcur.items :
                        RowsAt(rows, "contacts", plcur.acct, plcur.items[i].jid) # {}]_vars
C24_Witness ==
  /\ \E j \in DOMAIN delivered :
       /\ delivered[j].t = "ContactsSynced" /\ delivered[j].n = SmallBatch
       /\ j > 2 /\ delivered[j - 1].t = "SyncCompleted"
       /\ delivered[j - 2].t = "SyncStarted"
  /\ \E j \in DOMAIN produced :
       /\ produced[j].t = "ContactsSynced" /\ produced[j].n = LargeBatch
       /\ ProgressOf(j, "Contacts") # {}
  /\ Cardinality({r \in rows : r.table = "contacts"}) >= LargeBatch

\* C36: for a MessagesUpsert batch of n items, SyncProgress(Messages) events
\* are published only when n > 50, one for every 100th item (the items of
\* index 0, 100, ...), each with total = n and a `current` that is at most n
\* and larger than that of the one before; they come after the
\* SyncStarted(Messages) of the batch and before SyncCompleted(Messages, n),
\* which MessagesSynced(n) follows.
C36_MessagesProgress ==
  \A j \in DOMAIN produced :
       /\ (produced[j].t = "SyncProgress" /\ produced[j].sync = "Messages")
          => /\ StartOf(j, "Messages") > 0
             /\ \A m \in (StartOf(j, "Messages") + 1)..j :
                  m \in ProgressOf(j, "Messages")
             /\ produced[j].of > MessagesProgressMin
             /\ produced[j].n <= produced[j].of
             /\ produced[j].n
                  = (Cardinality(ProgressOf(j, "Messages")) - 1) * MessagesProgressEvery + 1
       /\ (produced[j].t = "SyncCompleted" /\ produced[j].sync = "Messages")
          => /\ StartOf(j, "Messages") > 0
             /\ \A m \in (StartOf(j, "Messages") + 1)..(j - 1) :
                  /\ m \in ProgressOf(j, "Messages")
                  /\ produced[m].of = produced[j].n
             /\ Cardinality(ProgressOf(j, "Messages"))
                  = (IF produced[j].n > MessagesProgressMin
                     THEN (produced[j].n - 1) \div MessagesProgressEvery + 1 ELSE 0)
             /\ j < Len(produced)
                => /\ produced[j + 1].t = "MessagesSynced"
                   /\ produced[j + 1].n = produced[j].n
       /\ produced[j].t = "MessagesSynced"
          => /\ j > 1
             /\ produced[j - 1].t = "SyncCompleted"
             /\ produced[j - 1].sync = "Messages"
             /\ produced[j - 1].n = produced[j].n
C36_Witness ==
  /\ \E j \in DOMAIN produced :
       /\ produced[j].t = "MessagesSynced" /\ produced[j].n = LargeBatch
       /\ Cardinality(ProgressOf(j, "Messages")) = 2
  /\ \E j \in DOMAIN produced :
       /\ produced[j].t = "MessagesSynced" /\ produced[j].n = MessagesProgressMin
       /\ ProgressOf(j, "Messages") = {}
  /\ Cardinality({r \in rows : r.table = "messages"}) >= LargeBatch

\* C26: when SyncCompleted(Groups, n) with n >= 50 is published, at least
\* one SyncProgress(Groups) event has been published since the
\* SyncStarted(Groups) of the batch.
C26_GroupsProgress ==
  \A j \in DOMAIN produced :
    (produced[j].t = "SyncCompleted" /\ produced[j].sync = "Groups"
     /\ produced[j].n >= 50)
    => ProgressOf(j, "Groups") # {}

\* C25: while a MessagesUpsert batch is handled, the step of the handler
\* that follows a successful insert publishes a per-message event.
C25_NewMessageEvent ==
  [][(plpc = "handle" /\ plcur.kind = "MessagesUpsert" /\ trace' # trace
      /\ trace[Len(trace)].what = "db")
     => /\ Len(produced') = Len(produced) + 1
        /\ produced'[Len(produced')].t = "NewMessage"]_vars

\* The key an item is stored under, and the table of a bulk event.
KeyOf(item) == IF "jid" \in DOMAIN item THEN item.jid ELSE item.message_id
TableOfKind(kind) ==
  CASE kind \in {"ContactsUpsert", "ContactsUpdate"} -> "contacts"
    [] kind \in {"GroupsUpsert", "GroupsUpdate"} -> "groups"
    [] OTHER -> "messages"
\* Position in the trace at which the handling of the current line began.
BeganAt == CHOOSE i \in DOMAIN trace : trace[i] = Entry("begin", plcur)
DoneSince(what) ==
  Cardinality({i \in BeganAt..Len(trace) : trace[i].what = what})
SyncEndEvents == {"SyncCompleted", "ContactsSynced", "GroupsSynced", "MessagesSynced"}

\* C27: a failed store call of a batch is the last thing its handler does:
\* the trace holds the end of the line right after the failure; the step of
\* the failure changes no row and publishes nothing; the items stored
\* before it have their rows after it; and none of the events the handler
\* published is SyncCompleted or a legacy Synced event.
C27_FailFast ==
  /\ [](\A i \in DOMAIN trace :
          trace[i].what = "dberr"
          => i < Len(trace) /\ trace[i + 1] = [trace[i] EXCEPT !.what = "end"])
  /\ [][(plpc = "handle" /\ lastCall'.n # lastCall.n /\ lastCall'.res = "Err")
        => /\ rows' = rows /\ produced' = produced
           /\ plpc' = "recv" /\ inbound' = inbound
           /\ \A i \in 1..DoneSince("db") :
                RowsAt(rows', TableOfKind(plcur.kind), plcur.acct,
                       KeyOf(plcur.items[i])) # {}
           /\ \A m \in (Len(produced) - DoneSince("pub") + 1)..Len(produced) :
                produced[m].t \notin SyncEndEvents]_vars
C27_Witness ==
  /\ lastCall.res = "Err" /\ lastCall.key = MidOf(2)
  /\ RowsAt(rows, "messages", "acme", MidOf(1)) # {}
  /\ RowsAt(rows, "messages", "acme", MidOf(2)) = {}
  /\ \E i \in DOMAIN trace :
       /\ i + 2 <= Len(trace) /\ trace[i].what = "db"
       /\ trace[i + 1].what = "dberr" /\ trace[i + 2].what = "end"
  /\ \E m \in DOMAIN produced : produced[m].sync = "Messages"

\* C28: the pipeline task never ends while the worker lives; after a failed
\* store call it is at rx.recv() again; and every line the engine has
\* written is in the end taken up by the pipeline task, and handled to its
\* end if it was taken up.
C28_ErrorKeepsLoop ==
  /\ [](plpc # "done")
  /\ [][(lastCall'.n # lastCall.n /\ lastCall'.res = "Err")
        => plpc' = "recv" /\ inboundRx' = "pipeline"]_vars
  /\ \A k \in 1..MaxLines :
       (emitted[1] >= k) ~> (\E i \in DOMAIN trace :
                               trace[i].what = "end" /\ trace[i].k = k)
C28_Witness ==
  \E i, j, m \in DOMAIN trace :
    /\ i < j /\ j < m /\ m < Len(trace)
    /\ trace[i].what = "dberr" /\ trace[i].k = 1
    /\ trace[j].what = "db" /\ trace[j].k = 2
    /\ trace[m].what = "pub" /\ trace[m].k = 2
    /\ trace[Len(trace)] = [what |-> "end", p |-> 1, k |-> 2]
    /\ produced # <<>> /\ produced[Len(produced)].t \in SyncEndEvents
    /\ lastCall.res = "Ok"

\* C29: the store call of an AuthStateUpdated event sets the auth-state of
\* its account, if that has a row, to the event's value and leaves the other
\* accounts' auth-states, the account ids, names and creation times and
\* every row as they were; it is the handler's only effect and nothing is
\* published; start_account reads the auth-state stored when it is called,
\* and the SetAuthState line it queues carries that value.
C29_AuthStateSaved ==
  /\ [][(plpc = "handle" /\ plcur.kind = "AuthStateUpdated"
         /\ lastCall'.n # lastCall.n)
        => /\ \A a \in AccountIds :
                authState'[a] = IF a = plcur.acct /\ a \in accounts
                                THEN plcur.items[1] ELSE authState[a]
           /\ accounts' = accounts /\ rows' = rows
           /\ \A a \in AccountIds :
                /\ acctCols'[a].name = acctCols[a].name
                /\ acctCols'[a].created_at = acctCols[a].created_at
           /\ produced' = produced /\ events' = events
           /\ plpc' = "recv"]_vars
  /\ [][\A c \in SendCallers :
          (callers[c].pc = "idle" /\ callers'[c].pc = "wait"
           /\ callers'[c].op = "start_account")
          => callers'[c].auth = authState[callers'[c].acct]]_vars
  /\ [][\A p \in PIDs :
          Len(enq'[p]) > Len(enq[p])
          => LET line == enq'[p][Len(enq'[p])] IN
               line.cmd = "SetAuthState"
               => line.arg = callers[line.c].auth /\ line.arg # Null]_vars
C29_Witness ==
  /\ authState["acme"] = "auth2"
  /\ Cardinality({i \in DOMAIN trace : trace[i].what = "db"}) = 2
  /\ \E i \in DOMAIN enq[1] :
       /\ i < Len(enq[1])
       /\ enq[1][i].cmd = "SetAuthState" /\ enq[1][i].arg = "auth2"
       /\ enq[1][i + 1].cmd = "StartAccount"
  /\ produced = <<>> /\ rows = {}

\* C30: in the queue of the engine's stdin every SetAuthState line is
\* followed directly by the StartAccount line of the same call, and a
\* start_account that found no stored auth-state queues no SetAuthState.
C30_AuthThenStart ==
  /\ \A p \in PIDs : \A i \in DOMAIN enq[p] :
       /\ (enq[p][i].cmd = "SetAuthState" /\ i < Len(enq[p]))
          => /\ enq[p][i + 1].cmd = "StartAccount"
             /\ enq[p][i + 1].c = enq[p][i].c
       /\ enq[p][i].cmd = "SetAuthState" => enq[p][i].arg # Null

\* C31: when an engine has exited by itself, its reader task has met the end
\* of its output stream, and the pipeline task has nothing left to handle,
\* a global Error event (no account id) has been published.
C31_TransportError ==
  \A p \in PIDs :
    (/\ Spawned(p) /\ pstate[p] = "dead" /\ forcedBy[p] = "none"
     /\ rpc[p] = "done" /\ outPipe[p] = <<>>
     /\ workerAlive /\ eventRx # "dropped"
     /\ plpc = "recv" /\ inbound = <<>>)
    => \E j \in DOMAIN produced : produced[j].t = "Error" /\ produced[j].acct = ""

\* The events handle_ipc_event published for the line whose handling ends
\* with the last entry of the trace tr, pr the events published so far.
LastBegin(tr) ==
  CHOOSE i \in DOMAIN tr :
    tr[i].what = "begin" /\ \A m \in DOMAIN tr : tr[m].what = "begin" => m <= i
PublishedFor(tr, pr) ==
  LET np == Cardinality({i \in LastBegin(tr)..Len(tr) : tr[i].what = "pub"})
  IN SubSeq(pr, Len(pr) - np + 1, Len(pr))
PlainKinds == {"Ready", "QrCode", "Connected", "Disconnected", "LoggedOut", "Error",
               "HistorySyncComplete", "ContactsUpdate", "GroupsUpdate",
               "AuthStateUpdated", "CommandResult"}
ExpectedEvents(l) ==
  CASE l.kind = "Ready" /\ l.acct = "" ->
         <<[t |-> "NanachiReady", acct |-> "", sync |-> "none", n |-> 0, of |-> 0,
            data |-> <<>>]>>
    [] l.kind = "Ready" /\ l.acct # "" ->
         <<[t |-> "AccountReady", acct |-> l.acct, sync |-> "none", n |-> 0,
            of |-> 0, data |-> <<>>]>>
    [] l.kind \in {"QrCode", "Connected", "Disconnected", "LoggedOut", "Error"} ->
         <<[t |-> l.kind, acct |-> l.acct, sync |-> "none", n |-> 0, of |-> 0,
            data |-> l.items]>>
    [] l.kind = "HistorySyncComplete" ->
         <<[t |-> "SyncCompleted", acct |-> l.acct, sync |-> "History", n |-> l.n,
            of |-> 0, data |-> <<>>],
           [t |-> "HistorySyncComplete", acct |-> l.acct, sync |-> "none",
            n |-> l.n, of |-> 0, data |-> <<>>]>>
    [] OTHER -> <<>>

\* C32: when the handling of a line that is no bulk upsert ends, the events
\* published for it are: NanachiReady for Ready with an empty account id and
\* AccountReady for Ready with an account id; one event of the same kind
\* with the same fields for QrCode, Connected, Disconnected, LoggedOut and
\* Error; SyncCompleted(History, count) then HistorySyncComplete(count) for
\* HistorySyncComplete; none for ContactsUpdate, GroupsUpdate,
\* AuthStateUpdated and CommandResult.
C32_PlainEvents ==
  [][(Len(trace') > Len(trace) /\ trace'[Len(trace')].what = "end")
     => LET l == IF plpc = "handle" THEN plcur ELSE Head(inbound) IN
          l.kind \in PlainKinds
          => PublishedFor(trace', produced') = ExpectedEvents(l)]_vars
C32_Witness ==
  /\ Len(delivered) = 3
  /\ delivered[1].t = "Connected" /\ delivered[1].data = << <<"555">> >>
  /\ delivered[2].t = "SyncCompleted" /\ delivered[2].sync = "History"
  /\ delivered[3].t = "HistorySyncComplete" /\ delivered[3].n = 7
  /\ trace[Len(trace)].what = "end"

\* C33: the list get_chats returns for an account holds every chat JID of a
\* stored message of that account, each once, and nothing else; a chat
\* whose latest message is later than another's comes before it.
C33_ChatsOrdered ==
  [][(lastCall'.n # lastCall.n /\ lastCall'.op = "get_chats")
     => LET out == lastCall'.out
            a == lastCall'.acct
            Latest(j) == CHOOSE t \in {1, 2} :
                           /\ \E r \in rows : r.table = "messages" /\ r.acct = a
                                               /\ r.cols.chat_jid = j
                                               /\ r.cols.timestamp = t
                           /\ \A r \in rows : (r.table = "messages" /\ r.acct = a
                                                /\ r.cols.chat_jid = j)
                                               => r.cols.timestamp <= t
        IN /\ \A r \in rows :
                (r.table = "messages" /\ r.acct = a)
                => Cardinality({i \in DOMAIN out : out[i] = r.cols.chat_jid}) = 1
           /\ \A i \in DOMAIN out :
                \E r \in rows : r.table = "messages" /\ r.acct = a
                                 /\ r.cols.chat_jid = out[i]
           /\ \A i, k \in DOMAIN out :
                Latest(out[i]) > Latest(out[k]) => i < k
           /\ rows' = rows /\ accounts' = accounts]_vars
C33_Witness ==
  /\ lastCall.op = "get_chats" /\ lastCall.acct = "acme"
  /\ lastCall.out = <<"c2", "c1">>
  /\ \E r \in rows : r.acct = "acme" /\ r.key = "m1" /\ r.cols.chat_jid = "c1"
  /\ Cardinality(MessagesOf("acme")) = 2
  /\ \E r \in rows : r.acct = "ghost" /\ r.table = "messages"

\* C34: a start_account for an account id that has no account row returns
\* AccountNotFound in the step it is called: the caller does not queue for
\* the lock, no line is queued to an engine and no event is published.
C34_AccountNotFound ==
  [][\A c \in SendCallers :
       (/\ callers[c].pc = "idle" /\ callers'[c] # callers[c]
        /\ callers'[c].op = "start_account" /\ callers'[c].acct \notin accounts)
       => /\ callers'[c].res = "AccountNotFound" /\ callers'[c].pc = "idle"
          /\ callers'[c].lines = callers[c].lines
          /\ waitq' = waitq /\ readers' = readers
          /\ enq' = enq /\ stdinQ' = stdinQ
          /\ produced' = produced /\ events' = events]_vars
C34_Witness ==
  \E c \in SendCallers :
    /\ callers[c].res = "AccountNotFound" /\ callers[c].acct = "ghost"
    /\ callers[c].pc = "idle" /\ callers[c].lines = 0
    /\ process # 0 /\ pstate[process] = "running" /\ enq[process] = <<>>

\* What the claim says of a phone number: 55, a 2-digit area code and 9 or 8
\* digits.
BrazilShown(ph) ==
  IF Len(ph) = 13
  THEN <<"+", "5", "5", " ">> \o SubSeq(ph, 3, 4) \o <<" ">> \o SubSeq(ph, 5, 9)
       \o <<"-">> \o SubSeq(ph, 10, 13)
  ELSE <<"+", "5", "5", " ">> \o SubSeq(ph, 3, 4) \o <<" ">> \o SubSeq(ph, 5, 8)
       \o <<"-">> \o SubSeq(ph, 9, 12)
IsPhoneJid(j) ==
  /\ StrContains(j, UserSuffix) /\ BeforeAt(j) # <<>>
  /\ \A i \in DOMAIN BeforeAt(j) : BeforeAt(j)[i] \in Digits
PhoneShownRight(j, shown) ==
  LET ph == BeforeAt(j) IN
    (ph[1] = "5" /\ ph[2] = "5" /\ Len(ph) \in {12, 13}) => shown = BrazilShown(ph)

\* C35 as stated: a JID with "@s.whatsapp.net" and a non-empty all-digit part
\* before '@' is shown as a formatted phone number; otherwise a JID starting
\* with "2:" is shown as "(LID)"; otherwise a JID containing "@lid" is shown
\* as "(U)".
C35_JidPrecedence ==
  display.pc = "shown"
  => IF IsPhoneJid(display.jid) THEN PhoneShownRight(display.jid, display.shown)
     ELSE IF StartsWith(display.jid, <<"2", ":">>)
     THEN display.shown = <<"(", "L", "I", "D", ")">>
     ELSE IF StrContains(display.jid, LidSuffix)
     THEN display.shown = <<"(", "U", ")">>
     ELSE TRUE

\* C35 amended: as stated, but a JID that is no phone number and contains
\* "@g.us" is shown as it is, before the "2:" and "@lid" rules apply.
C35_JidPrecedenceGroups ==
  display.pc = "shown"
  => IF IsPhoneJid(display.jid) THEN PhoneShownRight(display.jid, display.shown)
     ELSE IF StrContains(display.jid, GroupSuffix)
     THEN display.shown = display.jid
     ELSE IF StartsWith(display.jid, <<"2", ":">>)
     THEN display.shown = <<"(", "L", "I", "D", ")">>
     ELSE IF StrContains(display.jid, LidSuffix)
     THEN display.shown = <<"(", "U", ")">>
     ELSE TRUE
C35_Witness ==
  /\ display.pc = "shown"
  /\ display.jid = <<"5", "5", "1", "1", "9", "8", "7", "6", "5", "4", "3", "2", "1">> \o UserSuffix
  /\ display.shown = <<"+", "5", "5", " ", "1", "1", " ", "9", "8", "7", "6", "5", "-", "4", "3", "2", "1">>

\* C37: over any number of start() calls, calls after stop() included, at
\* most one pipeline task consumes the inbound channel: the receiver leaves
\* the manager once and never returns, a start() that returns when the
\* pipeline task exists starts no other task and leaves that task, the line
\* it handles and the channel as they are, and no line is taken up twice.
C37_OnePipelineTask ==
  /\ [](\A i, j \in DOMAIN trace :
          (/\ trace[i].what \in {"begin", "discard"}
           /\ trace[j].what \in {"begin", "discard"}
           /\ SameLine(trace[i], trace[j])) => i = j)
  /\ [][inboundRx # "manager" => inboundRx' = inboundRx]_vars
  /\ [][plpc # "none" => plpc' # "none"]_vars
  /\ [][(plpc # "none"
         /\ \E c \in Callers : Holds(c, "start") /\ callers'[c].pc = "idle")
        => UNCHANGED <<inbound, inboundRx, plpc, plcur, todo, trace>>]_vars
C37_Witness ==
  /\ nspawned = 2 /\ process = 2 /\ inboundRx = "pipeline"
  /\ plpc = "handle" /\ plcur.p = 1
  /\ \E c \in CtlCallers : callers[c].did = "spawned" /\ callers[c].pc = "idle"

\* C38: after stop() and a start() that spawned a new engine, the pipeline
\* task of the first start() is still the consumer of the inbound channel
\* while the worker lives, and once the new engine writes no more, every
\* line it has written has been taken up by that task and handled to its end.
C38_RestartDelivers ==
  /\ []((nspawned >= 2 /\ workerAlive)
        => inboundRx = "pipeline" /\ plpc \in {"recv", "handle"})
  /\ [](\A i \in DOMAIN trace : trace[i].p = 2 => nspawned >= 2)
  /\ <>[](\A k \in 1..emitted[2] : Done(2, k))
C38_Witness ==
  /\ nspawned = 2 /\ process = 2 /\ workerAlive
  /\ \E i, j \in DOMAIN trace :
       /\ i < j /\ trace[i].p = 1 /\ trace[i].what = "end"
       /\ trace[j].p = 2 /\ trace[j].what = "end"
       /\ \E m \in DOMAIN trace :
            i < m /\ m < j /\ trace[m].p = 2 /\ trace[m].what \in {"db", "pub"}

C40_NoConsumerNeeded ==
  /\ []((eventRx = "dropped" /\ workerAlive) => plpc # "done")
  /\ [][(eventRx = "dropped" /\ plpc = "handle" /\ trace' # trace)
        => /\ events' = events /\ produced' = produced
           /\ Head(todo).t = "pub" => todo' = Tail(todo)
           /\ Head(todo).t = "db"
              => /\ lastCall'.n = lastCall.n + 1
                 /\ lastCall'.op = Head(todo).op /\ lastCall'.key = Head(todo).key
           /\ (Head(todo).t = "db" /\ Head(todo).op \in RowOps)
              => ((RowsAt(rows', TableOf(Head(todo).op), Head(todo).acct,
                          Head(todo).key) # {})
                  <=> Head(todo).acct \in accounts)
           /\ (plpc' = "recv" /\ plcur.kind = "ContactsUpsert"
               /\ plcur.acct \in accounts)
              => \A i \in DOMAIN plcur.items :
                   RowsAt(rows', "contacts", plcur.acct, plcur.items[i].jid) # {}]_vars
  /\ <>[](eventRx = "dropped"
          => \A p \in PIDs : \A k \in 1..emitted[p] : Done(p, k))
C40_Witness ==
  /\ eventRx = "dropped" /\ produced = <<>> /\ workerAlive
  /\ \E r \in rows : r.table = "contacts" /\ r.acct = "acme"
  /\ \E i, j, m \in DOMAIN trace :
       /\ i < j /\ j < m
       /\ trace[i].what = "pub" /\ trace[j].what = "db" /\ trace[m].what = "end"
       /\ SameLine(trace[i], trace[j]) /\ SameLine(trace[j], trace[m])
  /\ \E i \in DOMAIN trace : trace[i].what = "begin" /\ trace[i].k = 2
  /\ plpc \in {"recv", "handle"}

====
